---------------------------- MODULE Spec2Model ----------------------------
(***************************************************************************)
(* A model of the batch classification pipeline of src/pdf_classifier.py   *)
(* (class PDFClassifier): the response decoding of classify_batch_with_ai, *)
(* process_batch, the batch loop of classify_pdfs_in_folder, _save_results,*)
(* organize_files_by_classification, classify_and_organize and the         *)
(* recursive collector with its staging folder.                            *)
(*                                                                         *)
(* The specifications of the module share its variables:                   *)
(*   Spec          one run of classify_pdfs_in_folder over a folder        *)
(*   SpecDecode    classify_batch_with_ai applied to response texts        *)
(*   SpecOrganize  organize_files_by_classification, called twice          *)
(*   SpecSanitize  _sanitize_folder_name applied to names                  *)
(*   SpecSave      _save_results applied to ResultSets                     *)
(*   SpecExtract   the extraction loop of process_batch                    *)
(*   SpecCollect   collect_pdfs_recursively and cleanup_temp_folder        *)
(*   SpecPipeline  one call of classify_and_organize                       *)
(***************************************************************************)
EXTENDS Integers, Sequences, FiniteSets

VARIABLES
    \* ---- classify_pdfs_in_folder (Spec) ----
    pc,               \* position in __init__ / classify_pdfs_in_folder / process_batch
    api_key,          \* whether a credential is available (argument or environment)
    folder,           \* the folder argument: [is_dir, listing]
    batch_size,       \* self.batch_size
    pdf_files,        \* the scanned list (line 429)
    i,                \* the loop index of line 454 (0-based, steps by batch_size)
    batch,            \* pdf_files[i:i + batch_size]
    texts_and_files,  \* process_batch's effective batch: <<[texto, filename]>>
    classifications,  \* what classify_batch_with_ai returned to process_batch
    batch_results,    \* process_batch's return value
    all_results,      \* the ResultSet accumulated by the loop
    processed_count,
    error_count,
    stats,            \* the dictionary classify_pdfs_in_folder returns
    output_dir,       \* artifacts written by _save_results
    trace,            \* observation of the run: batches, outcomes, calls, log
    \* ---- classify_batch_with_ai on its own (SpecDecode) ----
    d_pc,
    d_batch,          \* texts_and_files argument
    d_text,           \* response.text
    d_wrap,           \* the fence wrapped around d_text for the second call
    d_plain,          \* the call's outcome on d_text
    d_fenced,         \* the call's outcome on d_text wrapped in d_wrap
    \* ---- organize_files_by_classification (SpecOrganize) ----
    o_pc,
    o_posix,          \* whether Path.glob matches case-sensitively (POSIX)
    o_results,        \* the ResultSet argument
    o_source,         \* source_folder: [files, unreadable, readonly]
    o_k,              \* index of the next record of the loop of line 573
    o_pending,        \* all_pdfs still to visit in the loop of line 626
    o_tree,           \* destination tree: [dirs, files]
    o_stats,          \* the stats dictionary
    o_copies,         \* observation: every copy made by this call, in order
    o_failures,       \* observation: every error counted by this call, in order
    o_run,            \* 1 in the first call, 2 in the repeated call
    o_first,          \* what the first call left: [stats, files]
    \* ---- _sanitize_folder_name on its own (SpecSanitize) ----
    s_pc,
    s_name,           \* the name argument
    s_folder,         \* the returned folder segment
    \* ---- classify_and_organize (SpecPipeline, with the variables of Spec and
    \*      SpecOrganize) ----
    p_pc,
    p_organize,       \* the organize_files argument
    p_prior,          \* the clasificacion_*.json artifacts output_dir held before the call
    p_latest,         \* latest_json of line 677
    p_stats,          \* the dictionary classify_and_organize returns
    \* ---- _save_results on its own (SpecSave) ----
    v_pc,
    v_arg,            \* the ResultSet as it was when the call was made
    v_results,        \* the caller's ResultSet object
    v_out,            \* the artifacts of output_dir
    v_table,          \* the lines written to the CSV artifact, header first
    v_raised,         \* whether the call raised
    \* ---- the extraction loop of process_batch on its own (SpecExtract) ----
    e_pc,
    e_batch,          \* pdf_files_batch
    e_textos,         \* what extract_text_from_pdf returns for each file
    e_effective,      \* texts_and_files after the loop
    e_log,            \* the warnings of the loop, in order
    \* ---- collect_pdfs_recursively and cleanup_temp_folder (SpecCollect) ----
    c_pc,
    c_temp_dir,       \* self.temp_dir: 0 for None, else the number of a staging folder
    c_map,            \* self.pdf_location_map: a set of [staged, relative] entries
    c_disk,           \* the staging folders made so far: <<[exists, files]>>
    c_pending,        \* pdf_files still to visit in the loop of line 159
    c_copied,         \* copied_files
    c_log,            \* observation: the copies of the current call that succeeded
    c_ret,            \* what the latest call of collect_pdfs_recursively returned
    c_calls           \* observation: how each call so far ended

vars_run == <<pc, api_key, folder, batch_size, pdf_files, i, batch, texts_and_files,
              classifications, batch_results, all_results, processed_count,
              error_count, stats, output_dir, trace>>
vars_dec == <<d_pc, d_batch, d_text, d_wrap, d_plain, d_fenced>>
vars_org == <<o_pc, o_posix, o_results, o_source, o_k, o_pending, o_tree,
              o_stats, o_copies, o_failures, o_run, o_first>>
vars_san == <<s_pc, s_name, s_folder>>
vars_pip == <<p_pc, p_organize, p_prior, p_latest, p_stats>>
vars_sav == <<v_pc, v_arg, v_results, v_out, v_table, v_raised>>
vars_ext == <<e_pc, e_batch, e_textos, e_effective, e_log>>
vars_col == <<c_pc, c_temp_dir, c_map, c_disk, c_pending, c_copied, c_log, c_ret,
              c_calls>>
vars == <<vars_run, vars_dec, vars_org, vars_san, vars_sav, vars_ext, vars_col, vars_pip>>

-----------------------------------------------------------------------------
(* Bounds of the model.                                                    *)

\* directory entries of the scanned folder
MaxEntries == 9
\* largest self.batch_size tried
MaxBatchSize == 3
\* batches of one run
MaxBatches == 3
\* elements of a response array beyond the size of the effective batch
MaxSurplus == 1
\* records of the ResultSet handed to the organizer
MaxRecords == 2

Min(a, b) == IF a < b THEN a ELSE b

-----------------------------------------------------------------------------
(* Text.  A str is a sequence of symbols [ch |-> c].  The characters of a  *)
(* JSON object literal are one symbol, [ch |-> "{}", obj |-> d], carrying  *)
(* the dict it denotes: the code never looks inside an object's text.      *)

Ch(c) == [ch |-> c]
Text(s) == [k \in 1..Len(s) |-> Ch(s[k])]
ObjLit(d) == [ch |-> "{}", obj |-> d]

IsSpace(sym) == sym.ch \in {" ", "\n"}

\* str.strip()
RECURSIVE LStrip(_)
LStrip(s) == IF s # <<>> /\ IsSpace(Head(s)) THEN LStrip(Tail(s)) ELSE s
RECURSIVE RStrip(_)
RStrip(s) ==
    IF s # <<>> /\ IsSpace(s[Len(s)]) THEN RStrip(SubSeq(s, 1, Len(s) - 1)) ELSE s
Strip(s) == RStrip(LStrip(s))

\* str.startswith / str.endswith
StartsWith(s, p) == Len(s) >= Len(p) /\ SubSeq(s, 1, Len(p)) = p
EndsWith(s, p) == Len(s) >= Len(p) /\ SubSeq(s, Len(s) - Len(p) + 1, Len(s)) = p
\* s[n:] and s[:-n]
DropFirst(s, n) == SubSeq(s, n + 1, Len(s))
DropLast(s, n) == SubSeq(s, 1, Len(s) - n)

\* the backtick character
Tick == "tick"
FenceJson == Text(<<Tick, Tick, Tick, "j", "s", "o", "n">>)
Fence == Text(<<Tick, Tick, Tick>>)

\* A plausible slip: the leading fence is cut as if it carried no tag.
CleanResponseShortCut(text) ==
    LET a == Strip(text)
        b == IF StartsWith(a, FenceJson) THEN DropFirst(a, 3) ELSE a
        c == IF EndsWith(b, Fence) THEN DropLast(b, 3) ELSE b
    IN  Strip(c)

\* lines 299-304: "Limpiar respuesta"
CleanResponse(text) ==
    LET a == Strip(text)
        b == IF StartsWith(a, FenceJson) THEN DropFirst(a, 7) ELSE a
        c == IF EndsWith(b, Fence) THEN DropLast(b, 3) ELSE b
    IN  Strip(c)

-----------------------------------------------------------------------------
(* json.loads on the JSON subset of the model: arrays, object literals and *)
(* the number 1, with optional whitespace.  A parsed value is              *)
(* [type |-> "list", items |-> <<...>>], [type |-> "dict", obj |-> d] or   *)
(* [type |-> "int"].                                                       *)

ParseFail == [ok |-> FALSE]

RECURSIVE SkipWs(_, _)
SkipWs(s, p) == IF p <= Len(s) /\ IsSpace(s[p]) THEN SkipWs(s, p + 1) ELSE p

RECURSIVE ParseValue(_, _)
RECURSIVE ParseItems(_, _, _)
ParseValue(s, p0) ==
    LET p == SkipWs(s, p0) IN
    IF p > Len(s) THEN ParseFail
    ELSE IF s[p].ch = "{}"
    THEN [ok |-> TRUE, val |-> [type |-> "dict", obj |-> s[p].obj], next |-> p + 1]
    ELSE IF s[p].ch = "1"
    THEN [ok |-> TRUE, val |-> [type |-> "int"], next |-> p + 1]
    ELSE IF s[p].ch = "["
    THEN LET q == SkipWs(s, p + 1) IN
         IF q <= Len(s) /\ s[q].ch = "]"
         THEN [ok |-> TRUE, val |-> [type |-> "list", items |-> <<>>], next |-> q + 1]
         ELSE ParseItems(s, p + 1, <<>>)
    ELSE ParseFail
ParseItems(s, p, acc) ==
    LET r == ParseValue(s, p) IN
    IF ~r.ok THEN ParseFail
    ELSE LET q == SkipWs(s, r.next) IN
         IF q > Len(s) THEN ParseFail
         ELSE IF s[q].ch = ","
         THEN ParseItems(s, q + 1, Append(acc, r.val))
         ELSE IF s[q].ch = "]"
         THEN [ok |-> TRUE,
               val |-> [type |-> "list", items |-> Append(acc, r.val)],
               next |-> q + 1]
         ELSE ParseFail

\* json.loads(s): [ok |-> FALSE] stands for json.JSONDecodeError
JsonLoads(s) ==
    LET r == ParseValue(s, 1) IN
    IF r.ok /\ SkipWs(s, r.next) > Len(s) THEN [ok |-> TRUE, val |-> r.val]
    ELSE ParseFail

-----------------------------------------------------------------------------
(* File names and classification dicts.  A file name is [stem, suffix];    *)
(* the empty string '' is EmptyName.  A str field of a dict is a sequence  *)
(* of one-character strings.                                               *)

Name(stem, suffix) == [stem |-> stem, suffix |-> suffix]
EmptyName == Name("", "")

\* What extract_text_from_pdf returns: None, or a text of `len` characters
\* of which `stripped` remain after strip().
NoText == [is_none |-> TRUE, len |-> 0, stripped |-> 0]
Txt(len, stripped) == [is_none |-> FALSE, len |-> len, stripped |-> stripped]

\* dict.get(key, default)
Get(d, key, default) == IF key \in DOMAIN d THEN d[key] ELSE default

ThemeCiencias == <<"C", "i", "e", "n", "c", "i", "a", "s">>
ThemeFisica == <<"F", "i", "s", "i", "c", "a">>

\* One element of the array the prompt asks for (lines 269-277), for the
\* document at 1-based position k, with the file name the model echoes.
Element(k, echoed) ==
    [documento |-> k, archivo |-> echoed, tema_general |-> ThemeCiencias,
     subtema |-> ThemeFisica, tema_especifico |-> <<"x">>,
     confianza |-> <<"a", "l", "t", "a">>,
     palabras_clave |-> <<[is_str |-> TRUE, val |-> <<"x">>]>>]

\* The same element with a keyword that is a JSON number.
ElementNumberKeyword(k, echoed) ==
    [Element(k, echoed) EXCEPT !.palabras_clave = <<[is_str |-> FALSE, val |-> <<"1">>]>>]

\* The text of a JSON array of the given object dicts.
RECURSIVE ArrayItems(_)
ArrayItems(elems) ==
    IF elems = <<>> THEN <<>>
    ELSE IF Len(elems) = 1 THEN <<ObjLit(elems[1])>>
    ELSE <<ObjLit(elems[1]), Ch(",")>> \o ArrayItems(Tail(elems))
ArrayText(elems) == <<Ch("[")>> \o ArrayItems(elems) \o <<Ch("]")>>

-----------------------------------------------------------------------------
(* classify_batch_with_ai (lines 242-348).  The outcome of                 *)
(* self.model.generate_content(prompt) is an input:                        *)
(*   [kind |-> "text", text |-> t]   a response whose .text is t           *)
(*   [kind |-> "transport_error"]   generate_content raises                *)
(*   [kind |-> "text_raises"]       a response whose .text accessor raises *)
(*                                  ValueError (a response with no part)   *)
(* The result is what the caller sees: a returned list, a returned None,   *)
(* or an exception that escapes.                                           *)

TextOutcome(t) == [kind |-> "text", text |-> t]
TransportError == [kind |-> "transport_error", text |-> <<>>]
TextRaises == [kind |-> "text_raises", text |-> <<>>]

ReturnList(l) == [raised |-> FALSE, is_none |-> FALSE, list |-> l, except |-> ""]
ReturnNone(why) == [raised |-> FALSE, is_none |-> TRUE, list |-> <<>>, except |-> why]
Raised(why) == [raised |-> TRUE, is_none |-> FALSE, list |-> <<>>, except |-> why]

\* A plausible slip: the isinstance check of line 310 is missing and a
\* non-array value is handed to the caller (here: escapes as a fault of the
\* logging loop that follows).
DecodeResponseNoListCheck(text) ==
    LET parsed == JsonLoads(CleanResponse(text)) IN
    IF ~parsed.ok THEN ReturnNone("JSONDecodeError")
    ELSE IF parsed.val.type # "list" THEN Raised("TypeError")
    ELSE IF \E k \in 1..Len(parsed.val.items) : parsed.val.items[k].type # "dict"
    THEN ReturnNone("AttributeError")
    ELSE ReturnList([k \in 1..Len(parsed.val.items) |-> parsed.val.items[k].obj])

\* lines 298-335 and 337-348 for a response whose text is `text`
DecodeResponse(text) ==
    LET parsed == JsonLoads(CleanResponse(text)) IN
    \* line 307 raises json.JSONDecodeError, handled at line 325
    IF ~parsed.ok THEN ReturnNone("JSONDecodeError")
    \* line 311 raises ValueError, handled at line 337
    ELSE IF parsed.val.type # "list" THEN ReturnNone("ValueError")
    \* line 319: .get on an element that is no dict raises AttributeError,
    \* handled at line 337
    ELSE IF \E k \in 1..Len(parsed.val.items) : parsed.val.items[k].type # "dict"
    THEN ReturnNone("AttributeError")
    ELSE ReturnList([k \in 1..Len(parsed.val.items) |-> parsed.val.items[k].obj])

ClassifyBatchWithAi(t_and_f, outcome) ==
    \* lines 252-253
    IF t_and_f = <<>> THEN ReturnList(<<>>)
    \* line 292 raises; 'response' is not in locals() at line 343
    ELSE IF outcome.kind = "transport_error" THEN ReturnNone("Exception")
    \* line 296 raises ValueError; the handler's getattr(response, 'text', ...)
    \* of line 344 raises it again (getattr's default covers AttributeError
    \* only), so the exception leaves the function
    ELSE IF outcome.kind = "text_raises" THEN Raised("ValueError")
    ELSE DecodeResponse(outcome.text)

-----------------------------------------------------------------------------
(* SpecDecode: classify_batch_with_ai on a response text, then on the same *)
(* text wrapped in a code fence.                                           *)

\* elements of the arrays tried by SpecDecode
MaxArray == 2

FileA == Name("a", ".pdf")
FileB == Name("b", ".PDF")

DecodeBatches ==
    { <<[texto |-> Txt(100, 100), filename |-> FileA]>>,
      <<[texto |-> Txt(100, 100), filename |-> FileA],
        [texto |-> Txt(51, 51), filename |-> FileB]>> }

DecodeBodies ==
    { ArrayText([k \in 1..n |-> Element(k, FileA)]) : n \in 0..MaxArray }
    \cup { <<ObjLit(Element(1, FileA))>>,                       \* {...}
           Text(<<"x">>),                                       \* prose
           <<>>,                                                \* ''
           Text(<<"[", "1", "]">>),                             \* [1]
           <<Ch("["), ObjLit(Element(1, FileA))>>,              \* [{...}
           <<Ch("["), Ch("["), ObjLit(Element(1, FileA)), Ch("]"), Ch("]")>>,
           <<Ch(" "), Ch("["), Ch(" "), ObjLit(Element(1, FileA)), Ch(" "),
             Ch("]"), Ch("\n")>> }
DecodePrefixes == { <<>>, FenceJson \o <<Ch("\n")>>, Fence \o <<Ch("\n")>> }
DecodeSuffixes == { <<>>, <<Ch("\n")>> \o Fence }
DecodeTexts ==
    { pre \o body \o post :
        pre \in DecodePrefixes, body \in DecodeBodies, post \in DecodeSuffixes }

WrapKinds == {"json", "json_tight", "bare", "bare_tight"}
Wrap(t, w) ==
    CASE w = "json" -> FenceJson \o <<Ch("\n")>> \o t \o <<Ch("\n")>> \o Fence
      [] w = "json_tight" -> FenceJson \o t \o Fence
      [] w = "bare" -> Fence \o <<Ch("\n")>> \o t \o <<Ch("\n")>> \o Fence
      [] w = "bare_tight" -> Fence \o t \o Fence

InitDecode ==
    /\ d_pc = "start"
    /\ d_batch \in DecodeBatches
    /\ d_text \in DecodeTexts
    /\ d_wrap = ""
    /\ d_plain = ReturnNone("")
    /\ d_fenced = ReturnNone("")

DecodePlain ==
    /\ d_pc = "start"
    /\ d_plain' = ClassifyBatchWithAi(d_batch, TextOutcome(d_text))
    /\ d_pc' = "plain"
    /\ UNCHANGED <<d_batch, d_text, d_wrap, d_fenced>>

DecodeFenced ==
    /\ d_pc = "plain"
    /\ \E w \in WrapKinds :
          /\ d_wrap' = w
          /\ d_fenced' = ClassifyBatchWithAi(d_batch, TextOutcome(Wrap(d_text, w)))
    /\ d_pc' = "done"
    /\ UNCHANGED <<d_batch, d_text, d_plain>>

-----------------------------------------------------------------------------
(* Spec: one run of classify_pdfs_in_folder (lines 408-506) with           *)
(* process_batch (lines 350-406) inlined as the steps extracting,          *)
(* requesting, reconciling.                                                *)

Entry(name, is_file) == [name |-> name, is_file |-> is_file]

\* What folder_path.iterdir() may enumerate, in enumeration order.
DirUniverse ==
    << Entry(Name("a", ".pdf"), TRUE), Entry(Name("notes", ".txt"), TRUE),
       Entry(Name("b", ".PDF"), TRUE), Entry(Name("sub", ".pdf"), FALSE),
       Entry(Name("c", ".pdf"), TRUE), Entry(Name("d", ".pdf"), TRUE),
       Entry(Name("e", ".pdf"), TRUE), Entry(Name("f", ".pdf"), TRUE),
       Entry(Name("g", ".pdf"), TRUE), Entry(Name("h", ".pdf"), TRUE),
       Entry(Name("i", ".pdf"), TRUE), Entry(Name("j", ".pdf"), TRUE) >>

\* str.lower() on the suffixes of the model
Lower(suffix) == IF suffix \in {".PDF", ".Pdf"} THEN ".pdf" ELSE suffix

\* A plausible slip: the is_file() test is missing and a directory named
\* like a PDF is taken for one.
ScanFolderNoFileCheck(listing) ==
    LET kept == SelectSeq(listing, LAMBDA e : Lower(e.name.suffix) = ".pdf")
    IN  [k \in 1..Len(kept) |-> kept[k].name]

\* lines 429-430
ScanFolder(listing) ==
    LET kept == SelectSeq(listing,
                          LAMBDA e : Lower(e.name.suffix) = ".pdf" /\ e.is_file)
    IN  [k \in 1..Len(kept) |-> kept[k].name]

\* A plausible slip: the slice runs one element too far.
SliceOverlap(files, from, size) ==
    SubSeq(files, from + 1, Min(from + size + 1, Len(files)))

\* pdf_files[i:i + self.batch_size], i 0-based
Slice(files, from, size) == SubSeq(files, from + 1, Min(from + size, Len(files)))

\* The texts extract_text_from_pdf may return for one file.
TextChoices == { NoText, Txt(0, 0), Txt(52, 50), Txt(51, 51), Txt(100, 100) }

\* A plausible slip: a text of exactly 50 characters counts as usable.
UsableFrom50(texto) == ~texto.is_none /\ texto.len > 0 /\ texto.stripped >= 50

\* line 370: texto and len(texto.strip()) > 50
Usable(texto) == ~texto.is_none /\ texto.len > 0 /\ texto.stripped > 50

\* lines 363-375: the effective batch for the given extraction outcomes
RECURSIVE Effective(_, _)
Effective(files, textos) ==
    IF files = <<>> THEN <<>>
    ELSE (IF Usable(Head(textos))
          THEN <<[texto |-> Head(textos), filename |-> Head(files)]>>
          ELSE <<>>) \o Effective(Tail(files), Tail(textos))

\* A file name no scanned file has.
OtherName == Name("zz", ".pdf")

\* The responses tried for an effective batch of m documents.
AiOutcomes(t_and_f) ==
    LET m == Len(t_and_f)
        same(n) == [k \in 1..n |->
                      Element(k, IF k <= m THEN t_and_f[k].filename ELSE OtherName)]
        other(n) == [k \in 1..n |-> Element(k, OtherName)]
        numbered == [k \in 1..m |-> ElementNumberKeyword(k, t_and_f[k].filename)]
    IN  { TextOutcome(ArrayText(same(n))) : n \in 0..(m + MaxSurplus) }
        \cup { TextOutcome(ArrayText(other(n))) : n \in 1..(m + MaxSurplus) }
        \cup { TextOutcome(ArrayText(numbered)),
               TextOutcome(Wrap(ArrayText(same(m)), "json")),
               TextOutcome(Wrap(ArrayText(same(m)), "bare")),
               TextOutcome(<<ObjLit(Element(1, OtherName))>>),
               TextOutcome(Text(<<"x">>)),
               TextOutcome(<<>>),
               TextOutcome(Text(<<"[", "1", "]">>)),
               TransportError,
               TextRaises }

\* A plausible slip: the record keeps the file name the model echoed.
TagRecordKeepEcho(classification, filename) ==
    [k \in DOMAIN classification \cup {"timestamp"} |->
        IF k = "timestamp" THEN <<"t">> ELSE classification[k]]

\* lines 393-395: result = classifications[i].copy(), then the two tags
TagRecord(classification, filename) ==
    [k \in DOMAIN classification \cup {"archivo", "timestamp"} |->
        IF k = "archivo" THEN filename
        ELSE IF k = "timestamp" THEN <<"t">>
        ELSE classification[k]]

\* A plausible slip: every element of the array becomes a record.
BatchResultsAllElements(t_and_f, cls) ==
    IF cls.is_none \/ cls.list = <<>> THEN <<>>
    ELSE [k \in 1..Len(cls.list) |->
            TagRecord(cls.list[k],
                      IF k <= Len(t_and_f) THEN t_and_f[k].filename ELSE OtherName)]

\* A plausible slip: a failed call yields one placeholder record per file.
BatchResultsPlaceholder(t_and_f, cls) ==
    IF cls.is_none
    THEN [k \in 1..Len(t_and_f) |-> TagRecord(Element(k, EmptyName), t_and_f[k].filename)]
    ELSE IF cls.list = <<>> THEN <<>>
    ELSE [k \in 1..Min(Len(t_and_f), Len(cls.list)) |->
            TagRecord(cls.list[k], t_and_f[k].filename)]

\* lines 385-406: process_batch's return value for what the AI call returned
BatchResults(t_and_f, cls) ==
    \* line 385: not classifications (None, or an empty list)
    IF cls.is_none \/ cls.list = <<>> THEN <<>>
    ELSE [k \in 1..Min(Len(t_and_f), Len(cls.list)) |->
            TagRecord(cls.list[k], t_and_f[k].filename)]

\* Log entries of process_batch's reconciliation.
\* line 386: logger.error("No se recibieron clasificaciones válidas")
LogNoValid == [level |-> "error", msg |-> "no_valid_classifications",
               filename |-> EmptyName]
\* line 404: logger.warning(f"Sin clasificación para {filename}")
LogMissing(filename) == [level |-> "warning", msg |-> "sin_clasificacion",
                         filename |-> filename]

\* lines 385-404: what the reconciliation writes to the log
ReconcileLog(t_and_f, cls) ==
    IF cls.is_none \/ cls.list = <<>> THEN <<LogNoValid>>
    ELSE LET missing == SelectSeq(
                 [k \in 1..Len(t_and_f) |-> [k |-> k, filename |-> t_and_f[k].filename]],
                 LAMBDA e : e.k > Len(cls.list))
         IN  [n \in 1..Len(missing) |-> LogMissing(missing[n].filename)]

\* Observation of one run: the batches handed to process_batch, how each
\* ended, the AI calls made for each, the files whose text was extracted,
\* the pauses, and the log entries of the reconciliation.
EmptyTrace ==
    [batches |-> <<>>, outcomes |-> <<>>, failed_files |-> 0, sleeps |-> 0,
     ai_calls |-> 0, calls |-> <<>>, extractions |-> 0, log |-> <<>>,
     \* the paths handed to extract_text_from_pdf for the latest batch
     opened |-> <<>>,
     \* the calls of _save_results
     saves |-> 0]

NoStats == [returned |-> FALSE]
NoOutput == [json_written |-> FALSE, json |-> <<>>, json_name |-> EmptyName,
             csv_written |-> FALSE, csv |-> <<>>, csv_name |-> EmptyName]

\* processed_count / len(pdf_files) * 100 as an exact fraction
Rate(processed, total) == [num |-> processed * 100, den |-> total]

\* A plausible slip: the rate is taken over the files of the batches that
\* produced a result or an error instead of over the files found.
StatsRateOverAttempted(files, processed, errors) ==
    [returned |-> TRUE, total_files |-> Len(files), processed |-> processed,
     errors |-> errors,
     success_rate |-> IF processed + errors > 0
                      THEN Rate(processed, processed + errors)
                      ELSE Rate(0, 1)]

\* lines 474-479 (the log_files entry of lines 500-504 is left out)
Stats(files, processed, errors) ==
    [returned |-> TRUE, total_files |-> Len(files), processed |-> processed,
     errors |-> errors,
     success_rate |-> IF files # <<>> THEN Rate(processed, Len(files))
                      ELSE Rate(0, 1)]

\* line 514: datetime.now().strftime("%Y%m%d_%H%M%S"), taken once per call
SaveTimestamp == "ts"
\* lines 517 and 523: clasificacion_{timestamp}.json / .csv
ArtifactName(timestamp, suffix) ==
    Name(<<"clasificacion_", timestamp>>, suffix)

\* line 526
CsvFieldnames ==
    {"documento", "archivo", "tema_general", "subtema", "tema_especifico",
     "confianza", "palabras_clave", "timestamp"}

\* lines 534-535: ', '.join(palabras_clave) raises TypeError when an item of
\* the list is no str
JoinRaises(result) ==
    /\ "palabras_clave" \in DOMAIN result
    /\ \E n \in 1..Len(result.palabras_clave) : ~result.palabras_clave[n].is_str

\* line 526: the same names in the order of the list
CsvColumns ==
    <<"documento", "archivo", "tema_general", "subtema", "tema_especifico",
      "confianza", "palabras_clave", "timestamp">>

\* line 535: ', '.join(items)
RECURSIVE JoinComma(_)
JoinComma(items) ==
    IF items = <<>> THEN <<>>
    ELSE IF Len(items) = 1 THEN items[1].val
    ELSE items[1].val \o <<",", " ">> \o JoinComma(Tail(items))

\* lines 533-537: the dictionary handed to the writer for one record: a copy
\* with the keyword list joined, restricted to the columns.  (Every
\* palabras_clave of this model is a list.)
CsvRow(result) ==
    [k \in DOMAIN result \cap CsvFieldnames |->
        IF k = "palabras_clave" THEN JoinComma(result[k]) ELSE result[k]]

\* lines 531-538: the rows written before the first record whose keywords
\* cannot be joined
RECURSIVE CsvRows(_)
CsvRows(results) ==
    IF results = <<>> \/ JoinRaises(Head(results)) THEN <<>>
    ELSE <<CsvRow(Head(results))>> \o CsvRows(Tail(results))

\* _save_results lets the TypeError of line 535 escape
SaveRaises(results) == \E k \in 1..Len(results) : JoinRaises(results[k])

\* A plausible slip: the guard of lines 510-512 is missing and an empty
\* ResultSet is written as two empty artifacts.
SaveResultsAlways(out, results) ==
    [json_written |-> TRUE, json |-> results,
     json_name |-> ArtifactName(SaveTimestamp, ".json"),
     csv_written |-> TRUE, csv |-> CsvRows(results),
     csv_name |-> ArtifactName(SaveTimestamp, ".csv")]

\* lines 508-540: the artifacts of output_dir after _save_results(results)
SaveResults(out, results) ==
    IF results = <<>> THEN out
    ELSE [json_written |-> TRUE, json |-> results,
          json_name |-> ArtifactName(SaveTimestamp, ".json"),
          csv_written |-> TRUE, csv |-> CsvRows(results),
          csv_name |-> ArtifactName(SaveTimestamp, ".csv")]

\* Paths as pathlib holds them: whether the path is absolute, and its parts.
AbsDocs == [absolute |-> TRUE, parts |-> <<"docs">>]
RelDocs == [absolute |-> FALSE, parts |-> <<"docs">>]
\* Path("."), whose parts are empty
Here == [absolute |-> FALSE, parts |-> <<>>]

\* Path.__truediv__: an absolute right operand replaces the left one
PathJoin(p, q) ==
    IF q.absolute THEN q
    ELSE [absolute |-> p.absolute, parts |-> p.parts \o q.parts]

\* line 429: what folder_path.iterdir() yields for the entry called name
ScannedPath(folder_path, name) ==
    [absolute |-> folder_path.absolute, parts |-> Append(folder_path.parts, name)]

\* line 367: full_path = folder_path / pdf_file, pdf_file being the scanned
\* path of the entry
FullPath(folder_path, name) == PathJoin(folder_path, ScannedPath(folder_path, name))

\* Whether extract_text_from_pdf finds the scanned entry under the path:
\* the folders of the model have no sub-folder of their own name, so any
\* other path names no file and fitz.open raises (line 238).
Denotes(path, folder_path, name) == path = ScannedPath(folder_path, name)

Folders ==
    { [is_dir |-> FALSE, listing |-> <<>>, path |-> AbsDocs],
      \* no PDF file: a text file and a directory named like a PDF
      [is_dir |-> TRUE, listing |-> <<DirUniverse[2], DirUniverse[4]>>, path |-> AbsDocs] }
    \cup { [is_dir |-> TRUE, listing |-> SubSeq(DirUniverse, 1, n), path |-> p] :
             n \in 0..MaxEntries, p \in {AbsDocs, RelDocs} }
    \cup { [is_dir |-> TRUE, listing |-> SubSeq(DirUniverse, 1, 1), path |-> Here] }

\* ceil(n / b)
CeilDiv(n, b) == (n + b - 1) \div b

InitRun ==
    /\ pc = "constructing"
    /\ api_key \in BOOLEAN
    /\ batch_size \in 1..MaxBatchSize
    /\ folder \in { f \in Folders :
                      CeilDiv(Len(ScanFolder(f.listing)), batch_size) <= MaxBatches }
    /\ pdf_files = <<>>
    /\ i = 0
    /\ batch = <<>>
    /\ texts_and_files = <<>>
    /\ classifications = ReturnList(<<>>)
    /\ batch_results = <<>>
    /\ all_results = <<>>
    /\ processed_count = 0
    /\ error_count = 0
    /\ stats = NoStats
    /\ output_dir = NoOutput
    /\ trace = EmptyTrace

\* lines 36-83 and 110-121: the constructor; without a credential
\* _configure_gemini raises ValueError at line 113
Construct ==
    /\ pc = "constructing"
    /\ pc' = IF api_key THEN "scanning" ELSE "init_raised"
    /\ UNCHANGED <<api_key, folder, batch_size, pdf_files, i, batch,
                   texts_and_files, classifications, batch_results, all_results,
                   processed_count, error_count, stats, output_dir, trace>>

\* lines 419-455: the checks, the scan and the entry into the loop
Scan ==
    /\ pc = "scanning"
    /\ IF ~folder.is_dir
       THEN \* line 423: raise ValueError
            /\ pc' = "folder_raised"
            /\ UNCHANGED <<pdf_files, batch, stats, trace>>
       ELSE LET found == ScanFolder(folder.listing) IN
            IF found = <<>>
            THEN \* line 434
                 /\ pc' = "done"
                 /\ stats' = [returned |-> TRUE, total_files |-> 0,
                              processed |-> 0, errors |-> 0]
                 /\ UNCHANGED <<pdf_files, batch, trace>>
            ELSE /\ pc' = "extracting"
                 /\ pdf_files' = found
                 /\ batch' = Slice(found, 0, batch_size)
                 /\ trace' = [trace EXCEPT
                                !.batches = Append(@, Slice(found, 0, batch_size)),
                                !.calls = Append(@, 0)]
                 /\ UNCHANGED stats
    /\ UNCHANGED <<api_key, folder, batch_size, i, texts_and_files, classifications,
                   batch_results, all_results, processed_count, error_count,
                   output_dir>>

\* lines 363-380: the extraction loop of process_batch
Extract ==
    /\ pc = "extracting"
    /\ \E textos \in [1..Len(batch) -> TextChoices] :
          LET eff == Effective(batch, textos) IN
          \* a path that names no file makes extract_text_from_pdf return None
          /\ \A k \in 1..Len(batch) :
                Denotes(FullPath(folder.path, batch[k]), folder.path, batch[k])
                \/ textos[k] = NoText
          /\ texts_and_files' = eff
          /\ IF eff = <<>>
             THEN \* line 380: return []
                  /\ batch_results' = <<>>
                  /\ pc' = "merging"
             ELSE /\ pc' = "requesting"
                  /\ UNCHANGED batch_results
    /\ trace' = [trace EXCEPT
                   !.extractions = @ + Len(batch),
                   !.opened = [k \in 1..Len(batch) |-> FullPath(folder.path, batch[k])]]
    /\ UNCHANGED <<api_key, folder, batch_size, pdf_files, i, batch, classifications,
                   all_results, processed_count, error_count, stats, output_dir>>

\* Observation: how one batch ended.  kind is "skipped" (no usable text, no
\* AI call), "none" (the AI call returned None), "raised" (the AI call raised)
\* or "classified" (the AI call returned an array).
BatchOutcome(kind, files, records) ==
    [kind |-> kind, files |-> Len(files), records |-> Len(records)]

\* A plausible slip: a batch whose call returned None is submitted again.
AfterRequestRetry(r) ==
    IF r.raised THEN "advancing" ELSE IF r.is_none THEN "requesting"
    ELSE "reconciling"

\* Where the run goes after the call of line 383: to the handler of lines
\* 467-469 and the next batch when it raised, else on to line 385.
AfterRequest(r) == IF r.raised THEN "advancing" ELSE "reconciling"

\* line 383 and, for an exception that leaves classify_batch_with_ai and
\* process_batch, the handler of lines 467-469
Request ==
    /\ pc = "requesting"
    /\ \E outcome \in AiOutcomes(texts_and_files) :
          LET r == ClassifyBatchWithAi(texts_and_files, outcome) IN
          /\ classifications' = r
          /\ trace' = [trace EXCEPT
                         !.ai_calls = @ + 1,
                         !.calls[Len(trace.calls)] = @ + 1,
                         !.failed_files = IF r.raised \/ r.is_none
                                          THEN @ + Len(batch) ELSE @,
                         !.outcomes = IF r.raised
                                      THEN Append(@, BatchOutcome("raised", batch, <<>>))
                                      ELSE @]
          /\ pc' = AfterRequest(r)
          /\ error_count' = IF r.raised THEN error_count + Len(batch)
                            ELSE error_count
    /\ UNCHANGED <<api_key, folder, batch_size, pdf_files, i, batch, texts_and_files,
                   batch_results, all_results, processed_count, stats,
                   output_dir>>

\* lines 385-406
Reconcile ==
    /\ pc = "reconciling"
    /\ batch_results' = BatchResults(texts_and_files, classifications)
    /\ trace' = [trace EXCEPT
                   !.log = @ \o ReconcileLog(texts_and_files, classifications)]
    /\ pc' = "merging"
    /\ UNCHANGED <<api_key, folder, batch_size, pdf_files, i, batch, texts_and_files,
                   classifications, all_results, processed_count, error_count,
                   stats, output_dir>>

\* lines 459-463
Merge ==
    /\ pc = "merging"
    /\ all_results' = all_results \o batch_results
    /\ processed_count' = processed_count + Len(batch_results)
    /\ trace' = [trace EXCEPT
                   !.outcomes =
                       Append(@, BatchOutcome(
                           IF texts_and_files = <<>> THEN "skipped"
                           ELSE IF classifications.is_none THEN "none"
                           ELSE "classified",
                           batch, batch_results))]
    /\ pc' = IF i + batch_size < Len(pdf_files) THEN "pausing" ELSE "advancing"
    /\ UNCHANGED <<api_key, folder, batch_size, pdf_files, i, batch, texts_and_files,
                   classifications, batch_results, error_count, stats,
                   output_dir>>

\* lines 464-465: time.sleep(2)
Pause ==
    /\ pc = "pausing"
    /\ trace' = [trace EXCEPT !.sleeps = @ + 1]
    /\ pc' = "advancing"
    /\ UNCHANGED <<api_key, folder, batch_size, pdf_files, i, batch, texts_and_files,
                   classifications, batch_results, all_results, processed_count,
                   error_count, stats, output_dir>>

\* A plausible slip: the loop is left after the current batch.
AdvanceOnce ==
    /\ pc = "advancing"
    /\ texts_and_files' = <<>>
    /\ classifications' = ReturnList(<<>>)
    /\ batch_results' = <<>>
    /\ pc' = "persisting"
    /\ UNCHANGED <<i, batch, trace>>
    /\ UNCHANGED <<api_key, folder, batch_size, pdf_files, all_results, processed_count,
                   error_count, stats, output_dir>>

\* lines 454-455: the next value of range(0, len(pdf_files), self.batch_size)
Advance ==
    /\ pc = "advancing"
    /\ texts_and_files' = <<>>
    /\ classifications' = ReturnList(<<>>)
    /\ batch_results' = <<>>
    /\ IF i + batch_size < Len(pdf_files)
       THEN /\ i' = i + batch_size
            /\ batch' = Slice(pdf_files, i + batch_size, batch_size)
            /\ trace' = [trace EXCEPT
                           !.batches = Append(@, Slice(pdf_files, i + batch_size,
                                                       batch_size)),
                           !.calls = Append(@, 0)]
            /\ pc' = "extracting"
       ELSE /\ pc' = "persisting"
            /\ UNCHANGED <<i, batch, trace>>
    /\ UNCHANGED <<api_key, folder, batch_size, pdf_files, all_results, processed_count,
                   error_count, stats, output_dir>>

\* lines 471-506
Persist ==
    /\ pc = "persisting"
    /\ output_dir' = SaveResults(output_dir, all_results)
    /\ trace' = [trace EXCEPT !.saves = @ + 1]
    /\ IF SaveRaises(all_results)
       THEN \* the TypeError leaves _save_results and classify_pdfs_in_folder
            /\ pc' = "save_raised"
            /\ UNCHANGED stats
       ELSE /\ stats' = Stats(pdf_files, processed_count, error_count)
            /\ pc' = "done"
    /\ UNCHANGED <<api_key, folder, batch_size, pdf_files, i, batch, texts_and_files,
                   classifications, batch_results, all_results, processed_count,
                   error_count>>

-----------------------------------------------------------------------------
(* Strings of the organizer: sequences of one-character strings.           *)

Uppers == <<"A", "B", "C", "D", "E", "F", "G", "H", "I", "J", "K", "L", "M",
            "N", "O", "P", "Q", "R", "S", "T", "U", "V", "W", "X", "Y", "Z",
            "Ó">>
Lowers == <<"a", "b", "c", "d", "e", "f", "g", "h", "i", "j", "k", "l", "m",
            "n", "o", "p", "q", "r", "s", "t", "u", "v", "w", "x", "y", "z",
            "ó">>
LowerChar(c) ==
    IF \E k \in 1..Len(Uppers) : Uppers[k] = c
    THEN Lowers[CHOOSE k \in 1..Len(Uppers) : Uppers[k] = c] ELSE c
UpperChar(c) ==
    IF \E k \in 1..Len(Lowers) : Lowers[k] = c
    THEN Uppers[CHOOSE k \in 1..Len(Lowers) : Lowers[k] = c] ELSE c
\* str.lower()
LowerStr(str) == [k \in 1..Len(str) |-> LowerChar(str[k])]
\* str.capitalize()
Capitalize(w) ==
    IF w = <<>> THEN <<>> ELSE <<UpperChar(Head(w))>> \o LowerStr(Tail(w))

IsWs(c) == c \in {" ", "\n", "\t"}
RECURSIVE LStripStr(_)
LStripStr(str) ==
    IF str # <<>> /\ IsWs(Head(str)) THEN LStripStr(Tail(str)) ELSE str
RECURSIVE RStripStr(_)
RStripStr(str) ==
    IF str # <<>> /\ IsWs(str[Len(str)])
    THEN RStripStr(SubSeq(str, 1, Len(str) - 1)) ELSE str
StripStr(str) == RStripStr(LStripStr(str))

\* A plausible slip: the character class of the pattern misses the slash.
RemoveIllegalNoSlash(str) ==
    SelectSeq(str, LAMBDA c : c \notin {"<", ">", ":", "\"", "\\", "|", "?", "*"})

\* re.sub(r'[<>:"/\\|?*]', '', name)
IllegalChars == {"<", ">", ":", "\"", "/", "\\", "|", "?", "*"}
RemoveIllegal(str) == SelectSeq(str, LAMBDA c : c \notin IllegalChars)

\* re.sub(r'\s+', '_', str)
RECURSIVE CollapseWs(_)
CollapseWs(str) ==
    IF str = <<>> THEN <<>>
    ELSE IF IsWs(Head(str)) THEN <<"_">> \o CollapseWs(LStripStr(str))
    ELSE <<Head(str)>> \o CollapseWs(Tail(str))

\* str[:n]
Take(str, n) == SubSeq(str, 1, Min(n, Len(str)))

\* str.split('_'): the words between underscores, empty ones included
RECURSIVE SplitUnderscore(_, _)
SplitUnderscore(str, word) ==
    IF str = <<>> THEN <<word>>
    ELSE IF Head(str) = "_" THEN <<word>> \o SplitUnderscore(Tail(str), <<>>)
    ELSE SplitUnderscore(Tail(str), Append(word, Head(str)))

\* '_'.join(words)
RECURSIVE JoinUnderscore(_)
JoinUnderscore(words) ==
    IF words = <<>> THEN <<>>
    ELSE IF Len(words) = 1 THEN words[1]
    ELSE words[1] \o <<"_">> \o JoinUnderscore(Tail(words))

SinClasificar ==
    <<"S", "i", "n", "_", "C", "l", "a", "s", "i", "f", "i", "c", "a", "r">>
NoClasificados ==
    <<"n", "o", "_", "c", "l", "a", "s", "i", "f", "i", "c", "a", "d", "o", "s">>

\* the list of line 95
SanitizePlaceholders ==
    { <<"n", "/", "a">>, <<"n", "a">>, <<"n", "o", "n", "e">>,
      <<"n", "u", "l", "l">> }
\* the list of line 593
OrganizePlaceholders ==
    { <<"n", "/", "a">>, <<"n", "a">>, <<"n", "o", "n", "e">> }

\* _sanitize_folder_name (lines 85-108)
SanitizeFolderName(name) ==
    IF name = <<>> \/ LowerStr(name) \in SanitizePlaceholders THEN SinClasificar
    ELSE LET sanitized == Take(CollapseWs(StripStr(RemoveIllegal(name))), 50)
             words == SelectSeq(SplitUnderscore(sanitized, <<>>),
                                LAMBDA w : w # <<>>)
             joined == JoinUnderscore([k \in 1..Len(words) |-> Capitalize(words[k])])
         IN  IF joined = <<>> THEN SinClasificar ELSE joined

-----------------------------------------------------------------------------
(* SpecOrganize: organize_files_by_classification (lines 542-646), called  *)
(* once and then once more with the same arguments.  The source folder is  *)
(* [files, unreadable, readonly]: the names of its regular files, those    *)
(* among them that cannot be read, and those among them that carry no      *)
(* write permission.  The destination tree is [dirs, files]: the folders   *)
(* made under organized_folder, as paths relative to it, and the copies,   *)
(* each [dir, name].                                                       *)

\* line 593: the record goes to no_clasificados
GoesToUnclassified(tema_general) ==
    tema_general = <<>> \/ LowerStr(tema_general) \in OrganizePlaceholders

\* lines 601-607: the destination folder of a classified record
DestFolder(tema_general, subtema) ==
    LET tema_folder == SanitizeFolderName(tema_general)
        subtema_folder == IF subtema # <<>> THEN SanitizeFolderName(subtema)
                          ELSE <<>>
    IN  IF subtema_folder # <<>> /\ subtema_folder # SinClasificar
        THEN <<tema_folder, subtema_folder>>
        ELSE <<tema_folder>>

\* Path.glob("*.pdf") matches the name: by case on POSIX, whatever the case
\* on Windows
GlobMatchesPdf(name, posix) ==
    IF posix THEN name.suffix = ".pdf" ELSE Lower(name.suffix) = ".pdf"

\* the names the source folder may hold, in enumeration order
SourceUniverse == << Name("a", ".pdf"), Name("b", ".PDF") >>

\* line 624
AllPdfs(files, posix) ==
    SelectSeq(SourceUniverse, LAMBDA n : n \in files /\ GlobMatchesPdf(n, posix))

\* A plausible slip: only the files of records that were copied count as
\* classified, so a file whose copy failed is tried again.
ClassifiedFilesCopiedOnly(results) ==
    { Get(results[k], "archivo", EmptyName) : k \in 1..Len(results) }
        \ o_source.unreadable

\* line 623
ClassifiedFiles(results) ==
    { Get(results[k], "archivo", EmptyName) : k \in 1..Len(results) }

\* shutil.copy2(source_file, dest_file) of lines 596, 613 and 630 raises:
\* the source cannot be read, or dest_file exists without write permission
\* (copy2 gives a copy the permission bits of its source, and opens an
\* existing destination for writing)
CopyFails(name, dir, source, tree) ==
    \/ name \in source.unreadable
    \/ name \in source.readonly /\ [dir |-> dir, name |-> name] \in tree.files

Copy(k, dir, name) == [k |-> k, dir |-> dir, name |-> name]
Failure(k, name) == [k |-> k, name |-> name]

\* the path segment that names the parent directory
DotDot == <<".", ".">>

\* the records tried by SpecOrganize
OrganizeThemes ==
    { [x \in {} |-> x],
      [tema_general |-> <<"N", "/", "A">>],
      [tema_general |-> <<"n", "u", "l", "l">>, subtema |-> ThemeFisica],
      [tema_general |-> ThemeCiencias],
      [tema_general |-> ThemeCiencias, subtema |-> ThemeFisica] }
OrganizeNames ==
    { [x \in {} |-> x] } \cup { [archivo |-> SourceUniverse[k]] : k \in 1..Len(SourceUniverse) }
Merged(d1, d2) ==
    [k \in DOMAIN d1 \cup DOMAIN d2 |-> IF k \in DOMAIN d1 THEN d1[k] ELSE d2[k]]
OrganizeRecords ==
    { Merged(n, t) : n \in OrganizeNames, t \in OrganizeThemes }
    \* the parent directory as a theme
    \cup { [archivo |-> SourceUniverse[1], tema_general |-> DotDot] }

RECURSIVE SeqsUpTo(_, _)
SeqsUpTo(S, n) ==
    IF n = 0 THEN { <<>> }
    ELSE SeqsUpTo(S, n - 1)
         \cup { Append(q, x) : q \in { r \in SeqsUpTo(S, n - 1) : Len(r) = n - 1 },
                               x \in S }

SourceFiles == { SourceUniverse[k] : k \in 1..Len(SourceUniverse) }

NoFirst == [stats |-> NoStats, files |-> {}]

InitOrganize ==
    /\ o_pc = "start"
    /\ o_posix \in BOOLEAN
    /\ o_results \in SeqsUpTo(OrganizeRecords, MaxRecords)
    /\ o_source \in { [files |-> fs, unreadable |-> us, readonly |-> ro] :
                        fs \in SUBSET SourceFiles, us \in SUBSET SourceFiles,
                        ro \in SUBSET SourceFiles }
    /\ o_source.unreadable \subseteq o_source.files
    /\ o_source.readonly \subseteq o_source.files \ o_source.unreadable
    \* the matching rule makes a difference only for a suffix in upper case
    /\ o_posix \/ \E n \in o_source.files : n.suffix # Lower(n.suffix)
    /\ o_k = 1
    /\ o_pending = <<>>
    /\ o_tree = [dirs |-> {}, files |-> {}]
    /\ o_stats = NoStats
    /\ o_copies = <<>>
    /\ o_failures = <<>>
    /\ o_run = 1
    /\ o_first = NoFirst

\* lines 555-570
OrganizeStart ==
    /\ o_pc = "start"
    /\ o_tree' = [o_tree EXCEPT !.dirs = @ \cup { <<>>, <<NoClasificados>> }]
    /\ o_stats' = [returned |-> FALSE, total_processed |-> 0,
                   successfully_organized |-> 0, moved_to_unclassified |-> 0,
                   errors |-> 0, folders_created |-> {}]
    /\ o_pc' = "records"
    /\ UNCHANGED <<o_posix, o_results, o_source, o_k, o_pending, o_copies,
                   o_failures, o_run, o_first>>

\* lines 573-620: one iteration of the loop over the records
OrganizeRecord ==
    /\ o_pc = "records"
    /\ o_k <= Len(o_results)
    /\ LET result == o_results[o_k]
           archivo == Get(result, "archivo", EmptyName)
           tema_general == Get(result, "tema_general", <<>>)
           subtema == Get(result, "subtema", <<>>)
           counted == [o_stats EXCEPT !.total_processed = @ + 1]
       IN  IF archivo = EmptyName \/ archivo \notin o_source.files
           THEN \* lines 577-579 and 583-586
                /\ o_stats' = [counted EXCEPT !.errors = @ + 1]
                /\ o_failures' = Append(o_failures, Failure(o_k, archivo))
                /\ UNCHANGED <<o_tree, o_copies>>
           ELSE IF GoesToUnclassified(tema_general)
           THEN \* lines 594-598
                IF CopyFails(archivo, <<NoClasificados>>, o_source, o_tree)
                THEN \* lines 618-620
                     /\ o_stats' = [counted EXCEPT !.errors = @ + 1]
                     /\ o_failures' = Append(o_failures, Failure(o_k, archivo))
                     /\ UNCHANGED <<o_tree, o_copies>>
                ELSE /\ o_stats' = [counted EXCEPT !.moved_to_unclassified = @ + 1]
                     /\ o_tree' = [o_tree EXCEPT
                                     !.files = @ \cup {[dir |-> <<NoClasificados>>,
                                                        name |-> archivo]}]
                     /\ o_copies' = Append(o_copies,
                                           Copy(o_k, <<NoClasificados>>, archivo))
                     /\ UNCHANGED o_failures
           ELSE \* lines 600-616
                LET dest_folder == DestFolder(tema_general, subtema)
                    made == [o_tree EXCEPT
                               !.dirs = @ \cup { SubSeq(dest_folder, 1, n) :
                                                   n \in 1..Len(dest_folder) }]
                    noted == [counted EXCEPT
                                !.folders_created = @ \cup {dest_folder}]
                IN  IF CopyFails(archivo, dest_folder, o_source, o_tree)
                    THEN \* lines 618-620
                         /\ o_stats' = [noted EXCEPT !.errors = @ + 1]
                         /\ o_failures' = Append(o_failures, Failure(o_k, archivo))
                         /\ o_tree' = made
                         /\ UNCHANGED o_copies
                    ELSE /\ o_stats' = [noted EXCEPT
                                          !.successfully_organized = @ + 1]
                         /\ o_tree' = [made EXCEPT
                                         !.files = @ \cup {[dir |-> dest_folder,
                                                            name |-> archivo]}]
                         /\ o_copies' = Append(o_copies,
                                               Copy(o_k, dest_folder, archivo))
                         /\ UNCHANGED o_failures
    /\ o_k' = o_k + 1
    /\ UNCHANGED <<o_pc, o_posix, o_results, o_source, o_pending, o_run, o_first>>

\* lines 622-624
OrganizeGlob ==
    /\ o_pc = "records"
    /\ o_k > Len(o_results)
    /\ o_pending' = AllPdfs(o_source.files, o_posix)
    /\ o_pc' = "reconciling"
    /\ UNCHANGED <<o_posix, o_results, o_source, o_k, o_tree, o_stats, o_copies,
                   o_failures, o_run, o_first>>

\* lines 626-635: one iteration of the loop over all_pdfs
OrganizeUnreferenced ==
    /\ o_pc = "reconciling"
    /\ o_pending # <<>>
    /\ LET pdf_file == Head(o_pending) IN
       IF pdf_file \in ClassifiedFiles(o_results)
       THEN UNCHANGED <<o_tree, o_stats, o_copies, o_failures>>
       ELSE IF CopyFails(pdf_file, <<NoClasificados>>, o_source, o_tree)
       THEN \* lines 633-635
            /\ o_stats' = [o_stats EXCEPT !.errors = @ + 1]
            /\ o_failures' = Append(o_failures, Failure(0, pdf_file))
            /\ UNCHANGED <<o_tree, o_copies>>
       ELSE /\ o_stats' = [o_stats EXCEPT !.moved_to_unclassified = @ + 1]
            /\ o_tree' = [o_tree EXCEPT
                            !.files = @ \cup {[dir |-> <<NoClasificados>>,
                                               name |-> pdf_file]}]
            /\ o_copies' = Append(o_copies, Copy(0, <<NoClasificados>>, pdf_file))
            /\ UNCHANGED o_failures
    /\ o_pending' = Tail(o_pending)
    /\ UNCHANGED <<o_pc, o_posix, o_results, o_source, o_k, o_run, o_first>>

\* lines 637-646
OrganizeReturn ==
    /\ o_pc = "reconciling"
    /\ o_pending = <<>>
    /\ o_stats' = [o_stats EXCEPT !.returned = TRUE,
                                  !.folders_created = Cardinality(@)]
    /\ o_pc' = "done"
    /\ UNCHANGED <<o_posix, o_results, o_source, o_k, o_pending, o_tree, o_copies,
                   o_failures, o_run, o_first>>

\* The caller calls organize_files_by_classification again with the same
\* results, source_folder and organized_folder: the destination tree is as
\* the first call left it.
OrganizeAgain ==
    /\ o_pc = "done"
    /\ o_run = 1
    /\ o_first' = [stats |-> o_stats, files |-> o_tree.files]
    /\ o_run' = 2
    /\ o_k' = 1
    /\ o_copies' = <<>>
    /\ o_failures' = <<>>
    /\ o_pc' = "start"
    /\ UNCHANGED <<o_posix, o_results, o_source, o_pending, o_tree, o_stats>>

\* SpecSanitize: _sanitize_folder_name applied to a name.

\* characters of the names tried: a lower and an upper ASCII letter, a
\* blank, an underscore, an illegal character, an accented letter and a
\* punctuation mark
SanitizeAlphabet == {"a", "B", " ", "_", "/", "ó", "!"}
\* length of the names enumerated over SanitizeAlphabet
MaxNameLen == 3

\* "Ciencias de la Computación!!"
ThemeComputacion ==
    <<"C", "i", "e", "n", "c", "i", "a", "s", " ", "d", "e", " ", "l", "a", " ",
      "C", "o", "m", "p", "u", "t", "a", "c", "i", "ó", "n", "!", "!">>

\* a name of n characters: words of six letters, the second in upper case,
\* followed by a blank
LongName(n) ==
    [k \in 1..n |-> IF k % 7 = 0 THEN " " ELSE IF k % 7 = 2 THEN "X" ELSE "y"]

SanitizeNames ==
    UNION { [1..n -> SanitizeAlphabet] : n \in 0..MaxNameLen }
    \cup { ThemeComputacion, ThemeCiencias, <<"N", "/", "A">>, <<"n", "a">>,
           <<"N", "o", "n", "e">>, <<"n", "u", "l", "l">>,
           <<"<", ">", ":", "\"", "/", "\\", "|", "?", "*", "a", "\t", "b", "\n">> }
    \cup { LongName(n) : n \in {48, 49, 50, 51, 52, 56, 57, 60} }

InitSanitize ==
    /\ s_pc = "start"
    /\ s_name \in SanitizeNames
    /\ s_folder = <<>>

SanitizeCall ==
    /\ s_pc = "start"
    /\ s_folder' = SanitizeFolderName(s_name)
    /\ s_pc' = "done"
    /\ UNCHANGED s_name

(***************************************************************************)
(* _save_results on its own (SpecSave): the call applied to ResultSets     *)
(* whose records have extra fields, lack columns, or carry keyword lists   *)
(* of several shapes.                                                      *)
(***************************************************************************)
\* lines 529 and 538: what csv.DictWriter writes: the header, then for each
\* dictionary one cell per column, empty (restval '') for a missing key
WriteHeader == CsvColumns
WriteRow(row) ==
    [n \in 1..Len(CsvColumns) |->
        IF CsvColumns[n] \in DOMAIN row THEN row[CsvColumns[n]] ELSE <<>>]

\* lines 525-538: the lines of the CSV artifact
CsvTable(results) ==
    <<WriteHeader>> \o [n \in 1..Len(CsvRows(results)) |-> WriteRow(CsvRows(results)[n])]

MaxSaved == 2

Keyword(val) == [is_str |-> TRUE, val |-> val]
SavedFull == TagRecord(Element(1, Name("a", ".pdf")), Name("a", ".pdf"))
SaveRecords ==
    { SavedFull,
      [SavedFull EXCEPT !.palabras_clave = <<Keyword(<<"x">>), Keyword(<<"y", "z">>)>>],
      [SavedFull EXCEPT !.palabras_clave = <<>>],
      TagRecord(ElementNumberKeyword(1, Name("a", ".pdf")), Name("a", ".pdf")),
      \* a field outside the columns
      Merged(SavedFull, [resumen |-> <<"r">>]),
      \* columns missing
      [archivo |-> Name("b", ".pdf"), tema_general |-> ThemeCiencias, timestamp |-> <<"t">>],
      [archivo |-> Name("b", ".pdf"), timestamp |-> <<"t">>, resumen |-> <<"r">>] }

InitSave ==
    /\ v_pc = "calling"
    /\ v_arg \in SeqsUpTo(SaveRecords, MaxSaved)
    /\ v_results = v_arg
    /\ v_out = NoOutput
    /\ v_table = <<>>
    /\ v_raised = FALSE

\* lines 508-540: one call _save_results(results, output_dir).  The loop
\* works on result.copy() (line 532), so the caller's records are the same
\* after the call.
SaveCall ==
    /\ v_pc = "calling"
    /\ v_pc' = "saved"
    /\ v_out' = SaveResults(v_out, v_results)
    /\ v_table' = IF v_results = <<>> THEN v_table ELSE CsvTable(v_results)
    /\ v_raised' = SaveRaises(v_results)
    /\ UNCHANGED <<v_arg, v_results>>

IdleSave ==
    /\ v_pc = "idle"
    /\ v_arg = <<>>
    /\ v_results = <<>>
    /\ v_out = NoOutput
    /\ v_table = <<>>
    /\ v_raised = FALSE

(***************************************************************************)
(* The extraction loop of process_batch on its own (SpecExtract), with the *)
(* warnings extract_text_from_pdf and the loop write.                      *)
(***************************************************************************)
MaxExtract == 3

\* lines 233-234: "Texto muy corto", written when a text was extracted and
\* len(texto_final.strip()) < 100
WarnsShort(texto) == ~texto.is_none /\ texto.stripped < 100
LogShort(filename) == [kind |-> "texto_muy_corto", file |-> filename]
\* line 374: "Saltando archivo"
LogSkipped(filename) == [kind |-> "saltando", file |-> filename]

\* lines 366-375: the warnings of the loop for the given extraction outcomes
RECURSIVE ExtractLog(_, _)
ExtractLog(files, textos) ==
    IF files = <<>> THEN <<>>
    ELSE (IF WarnsShort(Head(textos)) THEN <<LogShort(Head(files))>> ELSE <<>>)
         \o (IF Usable(Head(textos)) THEN <<>> ELSE <<LogSkipped(Head(files))>>)
         \o ExtractLog(Tail(files), Tail(textos))

ExtractChoices == TextChoices \cup { Txt(50, 50), Txt(99, 99), Txt(120, 99) }
ExtractNames == [k \in 1..(MaxExtract + 1) |-> Name(<<"f", k>>, ".pdf")]

InitExtract ==
    /\ e_pc = "extracting"
    /\ \E n \in 1..MaxExtract :
          /\ e_batch = SubSeq(ExtractNames, 1, n)
          /\ e_textos \in [1..n -> ExtractChoices]
    /\ e_effective = <<>>
    /\ e_log = <<>>

\* lines 363-375
ExtractBatch ==
    /\ e_pc = "extracting"
    /\ e_pc' = "extracted"
    /\ e_effective' = Effective(e_batch, e_textos)
    /\ e_log' = ExtractLog(e_batch, e_textos)
    /\ UNCHANGED <<e_batch, e_textos>>

IdleExtract ==
    /\ e_pc = "idle"
    /\ e_batch = <<>>
    /\ e_textos = <<>>
    /\ e_effective = <<>>
    /\ e_log = <<>>

(***************************************************************************)
(* collect_pdfs_recursively and cleanup_temp_folder, called in any order   *)
(* on one classifier (SpecCollect).  A path below the root is a sequence   *)
(* of segments, a segment a sequence of tokens.                            *)
(***************************************************************************)
MaxCalls == 3

\* what rglob("*.pdf") finds, in its order: the path below the root and
\* whether the entry is a regular file
Found(relative, is_file) == [relative |-> relative, is_file |-> is_file]
RootUniverse ==
    { [is_dir |-> FALSE, found |-> <<>>],
      [is_dir |-> TRUE, found |-> <<>>],
      [is_dir |-> TRUE,
       found |-> << Found(<< <<"a">>, <<"b.pdf">> >>, TRUE),
                    \* a directory named like a PDF
                    Found(<< <<"d.pdf">> >>, FALSE),
                    Found(<< <<"a", "_", "b.pdf">> >>, TRUE) >>] }

\* line 165: str(relative_path).replace(os.sep, "_")
SafeName(relative) == JoinUnderscore(relative)

\* A plausible slip: the staged name carries no index.
StagedNameNoIndex(copied_files, relative) ==
    [index |-> 0, safe |-> SafeName(relative)]

\* line 166: f"{copied_files:04d}_{safe_name}".  The index is kept as the
\* number: its digits never hold an underscore, so two staged names are
\* equal exactly when index and safe_name are.
StagedName(copied_files, relative) ==
    [index |-> copied_files, safe |-> SafeName(relative)]

\* shutil.copy2 of line 170 on one entry: "copied", "failed" (nothing was
\* written) or "partial" (the destination was written, then copy2 raised)
CopyOutcomes(entry) ==
    IF entry.is_file THEN {"copied", "failed", "partial"} ELSE {"failed"}

\* dict assignment pdf_location_map[temp_pdf_name] = {...} of line 173
MapPut(map, staged, relative) ==
    { e \in map : e.staged # staged } \cup { [staged |-> staged, relative |-> relative] }

\* line 193
MappingFile == [index |-> 0, safe |-> <<"ubicaciones_originales.json">>]

NoReturn == [kind |-> "none", temp_dir |-> 0, map |-> {}, count |-> 0]

InitCollect ==
    /\ c_pc = "ready"
    /\ c_temp_dir = 0
    /\ c_map = {}
    /\ c_disk = <<>>
    /\ c_pending = <<>>
    /\ c_copied = 0
    /\ c_log = <<>>
    /\ c_ret = NoReturn
    /\ c_calls = <<>>

\* lines 134-154: the call up to the loop
CollectStart ==
    /\ c_pc = "ready"
    /\ Len(c_calls) < MaxCalls
    /\ \E root \in RootUniverse :
          IF ~root.is_dir
          THEN \* line 136: raise ValueError
               /\ c_ret' = [NoReturn EXCEPT !.kind = "raised"]
               /\ c_calls' = Append(c_calls, "collect_raised")
               /\ UNCHANGED <<c_pc, c_temp_dir, c_map, c_disk, c_pending, c_copied,
                              c_log>>
          ELSE \* lines 139-140: a fresh staging folder replaces self.temp_dir
               /\ c_disk' = Append(c_disk, [exists |-> TRUE, files |-> {}])
               /\ c_temp_dir' = Len(c_disk) + 1
               /\ c_map' = {}
               /\ c_copied' = 0
               /\ c_log' = <<>>
               /\ IF root.found = <<>>
                  THEN \* line 154
                       /\ c_ret' = [kind |-> "returned", temp_dir |-> Len(c_disk) + 1,
                                    map |-> {}, count |-> 0]
                       /\ c_calls' = Append(c_calls, "collect")
                       /\ UNCHANGED <<c_pc, c_pending>>
                  ELSE /\ c_pc' = "copying"
                       /\ c_pending' = root.found
                       /\ UNCHANGED <<c_ret, c_calls>>

\* lines 159-187: one iteration of the loop
CollectCopy ==
    /\ c_pc = "copying"
    /\ c_pending # <<>>
    /\ LET entry == Head(c_pending)
           name == StagedName(c_copied, entry.relative)
           written == [c_disk EXCEPT ![c_temp_dir].files = @ \cup {name}]
       IN  \E outcome \in CopyOutcomes(entry) :
              IF outcome = "copied"
              THEN /\ c_disk' = written
                   /\ c_map' = MapPut(c_map, name, entry.relative)
                   /\ c_copied' = c_copied + 1
                   /\ c_log' = Append(c_log, [staged |-> name,
                                               relative |-> entry.relative])
              ELSE \* lines 185-187
                   /\ c_disk' = IF outcome = "partial" THEN written ELSE c_disk
                   /\ UNCHANGED <<c_map, c_copied, c_log>>
    /\ c_pending' = Tail(c_pending)
    /\ UNCHANGED <<c_pc, c_temp_dir, c_ret, c_calls>>

\* lines 189-196
CollectReturn ==
    /\ c_pc = "copying"
    /\ c_pending = <<>>
    /\ c_disk' = [c_disk EXCEPT ![c_temp_dir].files = @ \cup {MappingFile}]
    /\ c_ret' = [kind |-> "returned", temp_dir |-> c_temp_dir, map |-> c_map,
                 count |-> c_copied]
    /\ c_calls' = Append(c_calls, "collect")
    /\ c_pc' = "ready"
    /\ UNCHANGED <<c_temp_dir, c_map, c_pending, c_copied, c_log>>

\* lines 198-209: cleanup_temp_folder
Cleanup ==
    /\ c_pc = "ready"
    /\ Len(c_calls) < MaxCalls
    /\ IF c_temp_dir # 0 /\ c_disk[c_temp_dir].exists
       THEN \/ \* lines 203-205: shutil.rmtree succeeded
               /\ c_disk' = [c_disk EXCEPT ![c_temp_dir] =
                                              [exists |-> FALSE, files |-> {}]]
               /\ c_temp_dir' = 0
               /\ c_map' = {}
               /\ c_calls' = Append(c_calls, "cleanup_removed")
            \/ \* lines 207-208: shutil.rmtree raised
               /\ c_calls' = Append(c_calls, "cleanup_failed")
               /\ UNCHANGED <<c_disk, c_temp_dir, c_map>>
       ELSE /\ c_calls' = Append(c_calls, "cleanup_nothing")
            /\ UNCHANGED <<c_disk, c_temp_dir, c_map>>
    /\ UNCHANGED <<c_pc, c_pending, c_copied, c_log, c_ret>>

IdleCollect ==
    /\ c_pc = "idle"
    /\ c_temp_dir = 0
    /\ c_map = {}
    /\ c_disk = <<>>
    /\ c_pending = <<>>
    /\ c_copied = 0
    /\ c_log = <<>>
    /\ c_ret = NoReturn
    /\ c_calls = <<>>

(***************************************************************************)
(* classify_and_organize (SpecPipeline): the run of classify_pdfs_in_folder *)
(* of Spec, then the selection of the artifact and the organizer of        *)
(* SpecOrganize, on POSIX, over a fresh destination folder.                *)
(***************************************************************************)
\* An artifact of output_dir: its name, the records it holds and its
\* st_mtime.  The artifact the run writes has st_mtime 1.
Artifact(name, json, mtime) == [name |-> name, json |-> json, mtime |-> mtime]

\* the records of an artifact an earlier run left
OldRecords ==
    << [archivo |-> Name("a", ".pdf"), tema_general |-> <<"V", "i", "e", "j", "o">>] >>

\* output_dir before the call: empty, or an earlier artifact whose st_mtime
\* is before or after the one of the artifact the run writes
PriorChoices ==
    { {} } \cup { { Artifact(ArtifactName("old", ".json"), OldRecords, t) } : t \in {0, 2} }

\* lines 517-520 and 679-680: json.dump, then json.load of the file
LoadArtifact(artifact) ==
    LET loaded == JsonLoads(ArrayText(artifact.json)).val
    IN  [k \in 1..Len(loaded.items) |-> loaded.items[k].obj]

\* line 669: output_dir_path.glob("clasificacion_*.json") after the run
JsonFiles(prior, out) ==
    { a \in prior : ~out.json_written \/ a.name # out.json_name }
    \cup (IF out.json_written THEN { Artifact(out.json_name, out.json, 1) } ELSE {})

\* line 677: max(json_files, key=st_mtime)
LatestJson(json_files) ==
    CHOOSE a \in json_files : \A b \in json_files : b.mtime <= a.mtime

\* the organizer's view of folder_path
SourceOf(f) ==
    [files |-> { f.listing[k].name : k \in { n \in 1..Len(f.listing) : f.listing[n].is_file } }
               \cap SourceFiles,
     unreadable |-> {}, readonly |-> {}]

PipelineFolders ==
    { [is_dir |-> FALSE, listing |-> <<>>, path |-> AbsDocs],
      [is_dir |-> TRUE, listing |-> SubSeq(DirUniverse, 1, 1), path |-> RelDocs] }
    \cup { [is_dir |-> TRUE, listing |-> SubSeq(DirUniverse, 1, n), path |-> AbsDocs] :
             n \in {0, 1, 3} }

InitPipeline ==
    /\ p_pc = "classifying"
    /\ p_organize \in BOOLEAN
    /\ p_prior \in PriorChoices
    /\ p_latest = EmptyName
    /\ p_stats = NoStats
    /\ folder \in PipelineFolders

\* line 663, when classify_pdfs_in_folder raises
PipelineRaised ==
    /\ p_pc = "classifying"
    /\ pc \in {"folder_raised", "save_raised"}
    /\ p_pc' = "raised"
    /\ UNCHANGED <<p_organize, p_prior, p_latest, p_stats>>

\* lines 663-691: classify_pdfs_in_folder has returned; up to the call of
\* organize_files_by_classification
PipelineClassified ==
    /\ p_pc = "classifying"
    /\ pc = "done"
    /\ LET json_files == JsonFiles(p_prior, output_dir) IN
       IF ~p_organize \/ stats.processed = 0 \/ json_files = {}
       THEN \* lines 665-666 and 672-674
            /\ p_stats' = stats
            /\ p_pc' = "returned"
            /\ UNCHANGED <<p_latest, vars_org>>
       ELSE LET latest_json == LatestJson(json_files) IN
            /\ p_latest' = latest_json.name
            /\ o_results' = LoadArtifact(latest_json)
            /\ o_source' = SourceOf(folder)
            /\ o_pc' = "start"
            /\ p_pc' = "organizing"
            /\ UNCHANGED <<p_stats, o_posix, o_k, o_pending, o_tree, o_stats, o_copies,
                           o_failures, o_run, o_first>>
    /\ UNCHANGED <<p_organize, p_prior>>

\* lines 693-700: organize_files_by_classification has returned
PipelineCombined ==
    /\ p_pc = "organizing"
    /\ o_pc = "done"
    /\ p_stats' = Merged([organization |-> o_stats, organized_folder |-> "organized"],
                         stats)
    /\ p_pc' = "returned"
    /\ UNCHANGED <<p_organize, p_prior, p_latest>>

IdlePipeline ==
    /\ p_pc = "idle"
    /\ p_organize = FALSE
    /\ p_prior = {}
    /\ p_latest = EmptyName
    /\ p_stats = NoStats

IdleSanitize ==
    /\ s_pc = "idle"
    /\ s_name = <<>>
    /\ s_folder = <<>>

IdleRun ==
    /\ pc = "idle"
    /\ api_key = TRUE
    /\ folder = [is_dir |-> FALSE, listing |-> <<>>, path |-> AbsDocs]
    /\ batch_size = 1
    /\ pdf_files = <<>>
    /\ i = 0
    /\ batch = <<>>
    /\ texts_and_files = <<>>
    /\ classifications = ReturnList(<<>>)
    /\ batch_results = <<>>
    /\ all_results = <<>>
    /\ processed_count = 0
    /\ error_count = 0
    /\ stats = NoStats
    /\ output_dir = NoOutput
    /\ trace = EmptyTrace

IdleDecode ==
    /\ d_pc = "idle"
    /\ d_batch = <<>>
    /\ d_text = <<>>
    /\ d_wrap = ""
    /\ d_plain = ReturnNone("")
    /\ d_fenced = ReturnNone("")

IdleOrganize ==
    /\ o_pc = "idle"
    /\ o_posix = TRUE
    /\ o_results = <<>>
    /\ o_k = 1
    /\ o_pending = <<>>
    /\ o_source = [files |-> {}, unreadable |-> {}, readonly |-> {}]
    /\ o_tree = [dirs |-> {}, files |-> {}]
    /\ o_stats = NoStats
    /\ o_copies = <<>>
    /\ o_failures = <<>>
    /\ o_run = 1
    /\ o_first = NoFirst

Init == InitRun /\ IdleDecode /\ IdleOrganize /\ IdleSanitize /\ IdleSave /\ IdleExtract /\ IdleCollect /\ IdlePipeline

Next ==
    \/ Construct /\ UNCHANGED <<vars_dec, vars_org, vars_san, vars_sav, vars_ext, vars_col, vars_pip>>
    \/ Scan /\ UNCHANGED <<vars_dec, vars_org, vars_san, vars_sav, vars_ext, vars_col, vars_pip>>
    \/ Extract /\ UNCHANGED <<vars_dec, vars_org, vars_san, vars_sav, vars_ext, vars_col, vars_pip>>
    \/ Request /\ UNCHANGED <<vars_dec, vars_org, vars_san, vars_sav, vars_ext, vars_col, vars_pip>>
    \/ Reconcile /\ UNCHANGED <<vars_dec, vars_org, vars_san, vars_sav, vars_ext, vars_col, vars_pip>>
    \/ Merge /\ UNCHANGED <<vars_dec, vars_org, vars_san, vars_sav, vars_ext, vars_col, vars_pip>>
    \/ Pause /\ UNCHANGED <<vars_dec, vars_org, vars_san, vars_sav, vars_ext, vars_col, vars_pip>>
    \/ Advance /\ UNCHANGED <<vars_dec, vars_org, vars_san, vars_sav, vars_ext, vars_col, vars_pip>>
    \/ Persist /\ UNCHANGED <<vars_dec, vars_org, vars_san, vars_sav, vars_ext, vars_col, vars_pip>>

Spec == Init /\ [][Next]_vars

InitSpecDecode == IdleRun /\ InitDecode /\ IdleOrganize /\ IdleSanitize /\ IdleSave /\ IdleExtract /\ IdleCollect /\ IdlePipeline

NextDecode ==
    \/ DecodePlain /\ UNCHANGED <<vars_run, vars_org, vars_san, vars_sav, vars_ext, vars_col, vars_pip>>
    \/ DecodeFenced /\ UNCHANGED <<vars_run, vars_org, vars_san, vars_sav, vars_ext, vars_col, vars_pip>>

SpecDecode == InitSpecDecode /\ [][NextDecode]_vars

InitSpecOrganize == IdleRun /\ IdleDecode /\ InitOrganize /\ IdleSanitize /\ IdleSave /\ IdleExtract /\ IdleCollect /\ IdlePipeline

NextOrganize ==
    \/ OrganizeStart /\ UNCHANGED <<vars_run, vars_dec, vars_san, vars_sav, vars_ext, vars_col, vars_pip>>
    \/ OrganizeRecord /\ UNCHANGED <<vars_run, vars_dec, vars_san, vars_sav, vars_ext, vars_col, vars_pip>>
    \/ OrganizeGlob /\ UNCHANGED <<vars_run, vars_dec, vars_san, vars_sav, vars_ext, vars_col, vars_pip>>
    \/ OrganizeUnreferenced /\ UNCHANGED <<vars_run, vars_dec, vars_san, vars_sav, vars_ext, vars_col, vars_pip>>
    \/ OrganizeReturn /\ UNCHANGED <<vars_run, vars_dec, vars_san, vars_sav, vars_ext, vars_col, vars_pip>>
    \/ OrganizeAgain /\ UNCHANGED <<vars_run, vars_dec, vars_san, vars_sav, vars_ext, vars_col, vars_pip>>

SpecOrganize == InitSpecOrganize /\ [][NextOrganize]_vars

InitSpecSanitize == IdleRun /\ IdleDecode /\ IdleOrganize /\ InitSanitize /\ IdleSave /\ IdleExtract /\ IdleCollect /\ IdlePipeline

NextSanitize ==
    \/ SanitizeCall /\ UNCHANGED <<vars_run, vars_dec, vars_org, vars_sav, vars_ext, vars_col, vars_pip>>

SpecSanitize == InitSpecSanitize /\ [][NextSanitize]_vars

-----------------------------------------------------------------------------
(* Claims about one run of classify_pdfs_in_folder (Spec).                 *)

RECURSIVE Concat(_)
Concat(seqs) == IF seqs = <<>> THEN <<>> ELSE Head(seqs) \o Concat(Tail(seqs))

RECURSIVE SumRecords(_)
SumRecords(outcomes) ==
    IF outcomes = <<>> THEN 0 ELSE Head(outcomes).records + SumRecords(Tail(outcomes))

Finished == pc = "done" /\ pdf_files # <<>>

\* C1: for a non-empty scanned list, whatever the batch size and the outcomes
\* of extraction and of the AI calls, the returned statistics satisfy
\* processed + errors <= total_files and
\* success_rate = processed / total_files * 100.
C1_StatsBounded ==
    /\ processed_count + error_count <= Len(Concat(trace.batches))
    /\ Finished =>
          /\ stats.total_files = Len(pdf_files)
          /\ stats.processed + stats.errors <= stats.total_files
          /\ stats.success_rate.den # 0
          /\ stats.success_rate.num * stats.total_files
                = stats.processed * 100 * stats.success_rate.den

\* a run in which one batch raised and another was classified in full
C1_Witness ==
    /\ Finished
    /\ stats.errors > 0
    /\ stats.processed > 0
    /\ stats.processed + stats.errors = stats.total_files

\* C2: a batch whose AI call failed (malformed response, transport failure)
\* contributes no record, the run goes on, every later batch is processed in
\* order, and the persisted file holds exactly the processed records.
C2_FailedBatchIsolated ==
    /\ \A k \in 1..Len(trace.outcomes) :
          trace.outcomes[k].kind \in {"none", "raised"} =>
              trace.outcomes[k].records = 0
    /\ pc = "folder_raised" => trace.batches = <<>>
    /\ pc \in {"persisting", "done"} /\ pdf_files # <<>> =>
          /\ Len(trace.outcomes) = CeilDiv(Len(pdf_files), batch_size)
          /\ Concat(trace.batches) = pdf_files
          /\ Len(all_results) = SumRecords(trace.outcomes)
    /\ Finished =>
          /\ stats.processed = SumRecords(trace.outcomes)
          /\ output_dir.json = all_results
          /\ Len(output_dir.json) = stats.processed

\* 7 PDFs, batch size 3, batch 2 answered by a malformed response, batches 1
\* and 3 classified in full: processed = 4 and 4 persisted records
C2_Witness ==
    /\ Finished
    /\ Len(pdf_files) = 7
    /\ batch_size = 3
    /\ Len(trace.outcomes) = 3
    /\ trace.outcomes[1] = [kind |-> "classified", files |-> 3, records |-> 3]
    /\ trace.outcomes[2] = [kind |-> "none", files |-> 3, records |-> 0]
    /\ trace.outcomes[3] = [kind |-> "classified", files |-> 1, records |-> 1]
    /\ stats.processed = 4
    /\ Len(output_dir.json) = 4

\* C3 (as claimed): after the run, errors equals the number of files in the
\* batches whose AI call failed outright.
C3_ErrorsCountFailedBatches ==
    Finished => stats.errors = trace.failed_files

\* C6: the loop hands process_batch ceil(n/b) contiguous, non-empty batches of
\* at most b files, only the last of which may be smaller than b, and their
\* concatenation in order is the scanned list.
C6_Batching ==
    LET n == Len(pdf_files)
        B == trace.batches
    IN  /\ \A k \in 1..Len(B) :
              /\ B[k] # <<>>
              /\ Len(B[k]) <= batch_size
              /\ k < CeilDiv(n, batch_size) => Len(B[k]) = batch_size
        /\ Len(B) <= CeilDiv(n, batch_size)
        /\ Concat(B) = SubSeq(pdf_files, 1, Len(Concat(B)))
        /\ pc \in {"persisting", "done"} /\ n > 0 =>
              /\ Len(B) = CeilDiv(n, batch_size)
              /\ Concat(B) = pdf_files

\* 7 files with b = 3: sizes [3, 3, 1]
C6_Witness ==
    /\ Finished
    /\ Len(pdf_files) = 7
    /\ batch_size = 3
    /\ Len(trace.batches) = 3
    /\ Len(trace.batches[1]) = 3
    /\ Len(trace.batches[2]) = 3
    /\ Len(trace.batches[3]) = 1

\* process_batch has reconciled an array returned for a non-empty batch
Reconciled ==
    /\ pc = "merging"
    /\ texts_and_files # <<>>
    /\ ~classifications.is_none

\* C7: a well-formed N-element array for an effective batch of N pairs gives
\* N records in input order, the i-th carrying the i-th submitted file name
\* whatever name the model echoed.
C7_PositionalFilenames ==
    (Reconciled /\ Len(classifications.list) = Len(texts_and_files)) =>
        /\ Len(batch_results) = Len(texts_and_files)
        /\ \A k \in 1..Len(texts_and_files) :
              /\ batch_results[k].archivo = texts_and_files[k].filename
              /\ batch_results[k].documento = classifications.list[k].documento

\* two documents, both echoed under another name
C7_Witness ==
    /\ Reconciled
    /\ Len(texts_and_files) >= 2
    /\ Len(classifications.list) = Len(texts_and_files)
    /\ \A k \in 1..Len(texts_and_files) :
          classifications.list[k].archivo # texts_and_files[k].filename
    /\ Len(batch_results) = Len(texts_and_files)

\* C10: for m files and a decoded array of k elements, process_batch yields
\* min(k, m) records, the first min(k, m) elements paired by position with
\* the first min(k, m) file names.
C10_MinCoverage ==
    Reconciled =>
        LET m == Len(texts_and_files)
            k == Len(classifications.list)
        IN  /\ Len(batch_results) = Min(k, m)
            /\ \A j \in 1..Min(k, m) :
                  /\ batch_results[j].archivo = texts_and_files[j].filename
                  /\ batch_results[j].documento = classifications.list[j].documento
                  /\ batch_results[j].tema_general
                        = classifications.list[j].tema_general

\* an array shorter than the batch: the last files get no record
C10_Witness ==
    /\ Reconciled
    /\ Len(classifications.list) >= 1
    /\ Len(classifications.list) < Len(texts_and_files)
    /\ Len(batch_results) = Len(classifications.list)

\* a surplus element is ignored
C10_SurplusReached ==
    /\ Reconciled
    /\ Len(classifications.list) > Len(texts_and_files)
    /\ Len(batch_results) = Len(texts_and_files)

-----------------------------------------------------------------------------
(* Claims about classify_batch_with_ai on a response text (SpecDecode).    *)

Decoded(r) == ~r.raised /\ ~r.is_none
CleanFailure(r) == ~r.raised /\ r.is_none

\* the text, trimmed, neither starts with the tagged fence nor ends with a fence
Unfenced(t) ==
    /\ ~StartsWith(Strip(t), FenceJson)
    /\ ~EndsWith(Strip(t), Fence)

\* C8 (as claimed): a text that decodes, wrapped in a leading fence with or
\* without the json tag and a trailing fence, decodes to the same array.
C8_AnyFenceTolerated ==
    (d_pc = "done" /\ Decoded(d_plain)) => d_fenced = d_plain

\* C8 (amended): a text that decodes and is not itself fenced, wrapped in a
\* leading fence tagged json and a trailing fence, decodes to the same array.
C8_JsonFenceTolerated ==
    (/\ d_pc = "done"
     /\ Decoded(d_plain)
     /\ Unfenced(d_text)
     /\ d_wrap \in {"json", "json_tight"}) => d_fenced = d_plain

C8_Witness ==
    /\ d_pc = "done"
    /\ Decoded(d_plain)
    /\ Len(d_plain.list) >= 1
    /\ Unfenced(d_text)
    /\ d_wrap = "json"
    /\ d_fenced = d_plain

\* the text handed to json.loads is not JSON, or is JSON but no array
NotAnArray(t) ==
    LET parsed == JsonLoads(CleanResponse(t)) IN
    ~parsed.ok \/ parsed.val.type = "dict"

\* C9: on a response that is no JSON, a JSON object or the empty string,
\* classify_batch_with_ai returns None and no exception escapes.
C9_MalformedReturnsNone ==
    /\ (d_pc \in {"plain", "done"} /\ (d_text = <<>> \/ NotAnArray(d_text)))
          => CleanFailure(d_plain)
    /\ (d_pc = "done" /\ NotAnArray(Wrap(d_text, d_wrap)))
          => CleanFailure(d_fenced)

\* a JSON object instead of an array
C9_Witness ==
    /\ d_pc = "plain"
    /\ Len(d_text) = 1
    /\ d_text[1].ch = "{}"
    /\ CleanFailure(d_plain)
    /\ d_plain.except = "ValueError"

\* the empty string
C9_EmptyReached == d_pc = "plain" /\ d_text = <<>> /\ CleanFailure(d_plain)

\* prose
C9_ProseReached == d_pc = "plain" /\ d_text = Text(<<"x">>) /\ CleanFailure(d_plain)

-----------------------------------------------------------------------------
(* Claims about organize_files_by_classification (SpecOrganize).           *)

Organized == o_pc = "done"

\* the copies of file f in the destination tree
CopiesOf(f) == { c \in o_tree.files : c.name = f }

\* C4 (as claimed): after the organizer returns, every PDF of the source
\* folder (extension matched whatever its case) is in the destination tree
\* exactly once.  Stated here for the runs in which no copy fails.
C4_EveryPdfExactlyOnce ==
    (Organized /\ o_source.unreadable = {}) =>
        \A f \in o_source.files :
            Lower(f.suffix) = ".pdf" => Cardinality(CopiesOf(f)) = 1

\* the placeholders the claim names
ClaimedPlaceholders ==
    { <<"n", "/", "a">>, <<"n", "a">>, <<"n", "o", "n", "e">>,
      <<"n", "u", "l", "l">> }
ClaimedUnclassifiable(result) ==
    LET tema_general == Get(result, "tema_general", <<>>) IN
    tema_general = <<>> \/ LowerStr(tema_general) \in ClaimedPlaceholders

\* C5 (as claimed): a record whose general theme is empty or one of n/a, na,
\* none, null (whatever the case) has its file copied into no_clasificados
\* and counted in moved_to_unclassified, never into a themed folder nor
\* counted in successfully_organized.
C5_PlaceholderGoesToUnclassified ==
    /\ \A j \in 1..Len(o_copies) :
          (o_copies[j].k > 0 /\ ClaimedUnclassifiable(o_results[o_copies[j].k]))
              => o_copies[j].dir = <<NoClasificados>>
    /\ Organized =>
          o_stats.successfully_organized
             = Cardinality({ j \in 1..Len(o_copies) :
                               /\ o_copies[j].k > 0
                               /\ ~ClaimedUnclassifiable(o_results[o_copies[j].k]) })

-----------------------------------------------------------------------------
(* Claims about the log, the artifacts and the control flow of one run     *)
(* (Spec).                                                                  *)

Logged(entry) == \E n \in 1..Len(trace.log) : trace.log[n] = entry

\* C11: whenever the decoded array has k elements for an effective batch of
\* m > k files, k = 0 included, the log holds a 'no classification for
\* <filename>' entry for each of the m - k files that got no record.
C11_GapLoggedPerFile ==
    (pc = "merging" /\ texts_and_files # <<>> /\ ~classifications.is_none)
    => \A j \in (Len(classifications.list) + 1)..Len(texts_and_files) :
          Logged(LogMissing(texts_and_files[j].filename))

-----------------------------------------------------------------------------
(* Claims about _sanitize_folder_name (SpecSanitize).                      *)

Sanitized == s_pc = "done"
NonPlaceholder(name) == name # <<>> /\ LowerStr(name) \notin ClaimedPlaceholders

\* the ASCII letters: the first 26 of Uppers and of Lowers
AsciiLetters == { Uppers[k] : k \in 1..26 } \cup { Lowers[k] : k \in 1..26 }

WordsOf(segment) == SplitUnderscore(segment, <<>>)
\* every underscore-delimited word is non-empty, starts in upper case and
\* continues in lower case
WordsCapitalized(segment) ==
    \A k \in 1..Len(WordsOf(segment)) :
        /\ WordsOf(segment)[k] # <<>>
        /\ WordsOf(segment)[k] = Capitalize(WordsOf(segment)[k])

ExpectedComputacion ==
    <<"C", "i", "e", "n", "c", "i", "a", "s", "_", "D", "e", "_", "L", "a", "_",
      "C", "o", "m", "p", "u", "t", "a", "c", "i", "ó", "n", "!", "!">>

C12_CapReached == Sanitized /\ Len(s_name) > 50 /\ Len(s_folder) = 50

\* _save_results has been called (line 472) and left, by return or by raise
Saved == pc \in {"done", "save_raised"} /\ pdf_files # <<>>

\* C15: _save_results writes nothing for an empty ResultSet, neither the
\* JSON nor the CSV artifact; for a non-empty ResultSet it creates both, named
\* with the same timestamp stem, and the JSON holds the ResultSet.
C15_NoArtifactsWhenEmpty ==
    Saved =>
        IF all_results = <<>>
        THEN ~output_dir.json_written /\ ~output_dir.csv_written
        ELSE /\ output_dir.json_written /\ output_dir.csv_written
             /\ output_dir.json_name.stem = output_dir.csv_name.stem
             /\ output_dir.json_name.suffix = ".json"
             /\ output_dir.csv_name.suffix = ".csv"
             /\ output_dir.json = all_results

\* a run whose batches all failed or were empty ended without artifacts
C15_Witness ==
    /\ Saved /\ all_results = <<>> /\ trace.ai_calls > 0
    /\ ~output_dir.json_written /\ ~output_dir.csv_written

\* a run with records ended with both artifacts
C15_BothReached ==
    /\ Saved /\ all_results # <<>>
    /\ output_dir.json_written /\ output_dir.csv_written

\* the folder holds no regular file whose suffix, in lower case, is .pdf
NoPdfIn(listing) ==
    \A k \in 1..Len(listing) :
        ~(listing[k].is_file /\ Lower(listing[k].name.suffix) = ".pdf")

\* C16: a folder with zero PDF files yields total_files = 0, processed = 0,
\* errors = 0, with no text extraction, no AI call, no pause and no persisted
\* artifact.
C16_ZeroActivity ==
    (pc \in {"done", "save_raised"} /\ NoPdfIn(folder.listing)) =>
        /\ pc = "done"
        /\ stats.returned
        /\ stats.total_files = 0 /\ stats.processed = 0 /\ stats.errors = 0
        /\ trace.extractions = 0 /\ trace.ai_calls = 0 /\ trace.sleeps = 0
        /\ trace.batches = <<>>
        /\ output_dir = NoOutput

\* a folder that holds entries, none of them a PDF file, has been handled
C16_Witness ==
    /\ pc = "done" /\ folder.is_dir /\ folder.listing # <<>>
    /\ NoPdfIn(folder.listing)
    /\ stats.returned /\ stats.total_files = 0

\* C17 (as claimed): the returned statistics always carry a success rate,
\* and it is 0 when total_files is 0.
C17_RateAlwaysPresent ==
    (pc = "done" /\ stats.returned) =>
        /\ "success_rate" \in DOMAIN stats
        /\ stats.total_files = 0 => stats.success_rate.num = 0

\* nothing was scanned, extracted, requested or written
NoBatchWork ==
    /\ pdf_files = <<>> /\ trace = EmptyTrace /\ all_results = <<>>
    /\ output_dir = NoOutput /\ ~stats.returned

Aborted == pc \in {"init_raised", "folder_raised", "save_raised"}

\* C18 (as claimed): a missing credential raises in the constructor and a
\* target that is no directory raises from classify_pdfs_in_folder, both
\* before any batch work; nothing else aborts the run.
C18_OnlyConfigurationFatal ==
    /\ (~api_key /\ pc # "constructing") => (pc = "init_raised" /\ NoBatchWork)
    /\ (api_key /\ ~folder.is_dir /\ pc \notin {"constructing", "scanning"})
          => (pc = "folder_raised" /\ NoBatchWork)
    /\ Aborted => (~api_key \/ ~folder.is_dir)

\* C19 (as claimed): one pause between every two consecutive batches and
\* none after the last: while batch n is processed n - 1 pauses have been
\* made, and a run of B batches ends with B - 1 pauses, however the batches
\* ended.
C19_PauseBetweenBatches ==
    /\ pc \in {"extracting", "requesting", "reconciling", "merging"}
          => trace.sleeps = Len(trace.batches) - 1
    /\ (pc \in {"persisting", "done", "save_raised"} /\ pdf_files # <<>>)
          => trace.sleeps = Len(trace.batches) - 1

RECURSIVE SumSeq(_)
SumSeq(q) == IF q = <<>> THEN 0 ELSE Head(q) + SumSeq(Tail(q))

\* C20: nothing is retried: the AI service is invoked at most once per batch,
\* once for a batch whose effective batch is non-empty, never for a batch
\* whose effective batch is empty, and no batch is handed over twice.
C20_NoRetry ==
    /\ Len(trace.calls) = Len(trace.batches)
    /\ trace.ai_calls = SumSeq(trace.calls)
    /\ \A k \in 1..Len(trace.calls) : trace.calls[k] <= 1
    /\ \A k \in 1..Len(trace.outcomes) :
          trace.calls[k] = IF trace.outcomes[k].kind = "skipped" THEN 0 ELSE 1
    /\ pc = "requesting" =>
          texts_and_files # <<>> /\ trace.calls[Len(trace.calls)] = 0
    /\ \A j, k \in 1..Len(trace.batches) :
          j # k => trace.batches[j] # trace.batches[k]

\* a run of three batches: one without usable text, one whose call failed,
\* one classified; two calls were made
C20_Witness ==
    /\ pc = "done" /\ Len(trace.outcomes) = 3
    /\ trace.outcomes[1].kind = "skipped"
    /\ trace.outcomes[2].kind = "none"
    /\ trace.outcomes[3].kind = "classified"
    /\ trace.calls = <<0, 1, 1>>

-----------------------------------------------------------------------------
(* Claims about errors and repetition in the organizer (SpecOrganize).     *)

CopiesFor(k) == { j \in 1..Len(o_copies) : o_copies[j].k = k }
FailuresFor(k) == { j \in 1..Len(o_failures) : o_failures[j].k = k }
ArchivoOf(k) == Get(o_results[k], "archivo", EmptyName)
\* the record's source file is absent, or present and impossible to read
SourceAbsent(k) == ArchivoOf(k) = EmptyName \/ ArchivoOf(k) \notin o_source.files
SourceUnreadable(k) == ArchivoOf(k) \in o_source.unreadable
Referenced(name) == \E k \in 1..Len(o_results) : ArchivoOf(k) = name

\* C13: a record whose source file is absent, or whose copy fails, adds
\* exactly one to 'errors' and does not stop the call: every record ends in
\* exactly one copy or one counted error, and so does every PDF of the
\* source folder that no record names.
C13_ErrorsNeverStop ==
    Organized =>
        /\ o_stats.total_processed = Len(o_results)
        /\ o_stats.errors = Len(o_failures)
        /\ \A k \in 1..Len(o_results) :
              /\ Cardinality(CopiesFor(k)) + Cardinality(FailuresFor(k)) = 1
              /\ (SourceAbsent(k) \/ SourceUnreadable(k))
                    => Cardinality(FailuresFor(k)) = 1
        /\ \A j \in FailuresFor(0) : ~Referenced(o_failures[j].name)
        /\ \A f \in o_source.files :
              (GlobMatchesPdf(f, o_posix) /\ ~Referenced(f))
                => Cardinality({ j \in CopiesFor(0) : o_copies[j].name = f })
                   + Cardinality({ j \in FailuresFor(0) : o_failures[j].name = f })
                   = 1

\* a record without source file was counted as an error, the record after it
\* was copied, and the reconciliation copied a file no record names
C13_Witness ==
    /\ Organized /\ o_run = 1 /\ Len(o_results) = 2
    /\ SourceAbsent(1) /\ o_stats.errors = 1
    /\ CopiesFor(2) # {} /\ CopiesFor(0) # {}

\* a copy failed, and the record after it was copied
C13_CopyFailureReached ==
    /\ Organized /\ o_run = 1 /\ Len(o_results) = 2
    /\ SourceUnreadable(1) /\ FailuresFor(1) # {} /\ CopiesFor(2) # {}

\* C14: a second call with the same ResultSet, source folder and destination
\* root leaves the destination tree with the members the first call left
\* and returns the counters the first call returned.
C14_Idempotent ==
    (Organized /\ o_run = 2) =>
        /\ o_tree.files = o_first.files
        /\ o_stats = o_first.stats


InitSpecSave == IdleRun /\ IdleDecode /\ IdleOrganize /\ IdleSanitize /\ InitSave /\ IdleExtract /\ IdleCollect /\ IdlePipeline

NextSave ==
    \/ SaveCall /\ UNCHANGED <<vars_run, vars_dec, vars_org, vars_san, vars_ext, vars_col, vars_pip>>

SpecSave == InitSpecSave /\ [][NextSave]_vars

(***************************************************************************)
(* Claims about the flattened table (SpecSave).                            *)
(***************************************************************************)
SaveReturned == v_pc = "saved" /\ v_arg # <<>>

\* C21: the table written for a non-empty ResultSet has exactly the eight
\* columns, one row per record in ResultSet order, a keyword list written as
\* its items joined by ", ", fields outside the columns dropped, a missing
\* column written empty, and the ResultSet is left as it was.
C21_FlattenedTable ==
    SaveReturned =>
        /\ v_table[1] = CsvColumns
        /\ Len(v_table) = 1 + Len(v_arg)
        /\ \A n \in 1..Len(v_arg) : \A c \in 1..Len(CsvColumns) :
              LET col == CsvColumns[c]
                  cell == v_table[n + 1][c]
              IN  /\ Len(v_table[n + 1]) = Len(CsvColumns)
                  /\ IF col \in DOMAIN v_arg[n]
                     THEN IF col = "palabras_clave"
                          THEN cell = JoinComma(v_arg[n][col])
                          ELSE cell = v_arg[n][col]
                     ELSE cell = <<>>
        /\ v_results = v_arg

\* C21: the same for the rows that were written: the table holds the header
\* and a prefix of the rows, and is complete unless a keyword is no string.
C21_RowsWritten ==
    SaveReturned =>
        /\ v_table[1] = CsvColumns
        /\ Len(v_table) <= 1 + Len(v_arg)
        /\ (~v_raised => Len(v_table) = 1 + Len(v_arg))
        /\ \A n \in 1..(Len(v_table) - 1) : \A c \in 1..Len(CsvColumns) :
              LET col == CsvColumns[c]
                  cell == v_table[n + 1][c]
              IN  IF col \in DOMAIN v_arg[n]
                  THEN IF col = "palabras_clave"
                       THEN cell = JoinComma(v_arg[n][col])
                       ELSE cell = v_arg[n][col]
                  ELSE cell = <<>>
        /\ v_results = v_arg


InitSpecExtract == IdleRun /\ IdleDecode /\ IdleOrganize /\ IdleSanitize /\ IdleSave /\ InitExtract /\ IdleCollect /\ IdlePipeline

NextExtract ==
    \/ ExtractBatch /\ UNCHANGED <<vars_run, vars_dec, vars_org, vars_san, vars_sav, vars_col, vars_pip>>

SpecExtract == InitSpecExtract /\ [][NextExtract]_vars

(***************************************************************************)
(* Claims about the exclusion of documents from the submission             *)
(* (SpecExtract).                                                          *)
(***************************************************************************)
Extracted == e_pc = "extracted"
Submitted(k) == \E n \in 1..Len(e_effective) : e_effective[n].filename = e_batch[k]
ShortWarned(k) == \E n \in 1..Len(e_log) : e_log[n] = LogShort(e_batch[k])
ExtractionFailed(k) == e_textos[k].is_none

\* survivors are the batch with the excluded documents removed, in order
SurvivorsInOrder ==
    /\ \A n \in 1..Len(e_effective) :
          \E k \in 1..Len(e_batch) :
             /\ e_effective[n].filename = e_batch[k]
             /\ e_effective[n].texto = e_textos[k]
    /\ \A n, m \in 1..Len(e_effective) :
          n < m => \E k, l \in 1..Len(e_batch) :
                      /\ k < l
                      /\ e_effective[n].filename = e_batch[k]
                      /\ e_effective[m].filename = e_batch[l]

\* C23 as stated: a document is excluded exactly when its extraction failed
\* or its text is below the usable length, every document the too-short
\* warning was written for is excluded, and the survivors keep their order.
C23_WarnedIsExcluded ==
    Extracted =>
        /\ \A k \in 1..Len(e_batch) :
              /\ ~Submitted(k) <=> (ExtractionFailed(k) \/ e_textos[k].stripped <= 50)
              /\ ShortWarned(k) => ~Submitted(k)
        /\ SurvivorsInOrder

\* C23 as amended: the warning is written below 100 characters and the
\* exclusion happens at 50 or fewer, so every excluded document with an
\* extracted text was warned about, and a warned document is submitted
\* exactly when its stripped text has more than 50 characters.
C23_ExcludedIsWarned ==
    Extracted =>
        /\ \A k \in 1..Len(e_batch) :
              /\ ~Submitted(k) <=> (ExtractionFailed(k) \/ e_textos[k].stripped <= 50)
              /\ (~Submitted(k) /\ ~ExtractionFailed(k)) => ShortWarned(k)
              /\ ShortWarned(k) => (Submitted(k) <=> e_textos[k].stripped > 50)
        /\ SurvivorsInOrder

\* a batch where one document failed, one is warned about and excluded, one
\* is warned about and submitted, in the middle of the batch order
C23_Witness ==
    /\ Extracted
    /\ Len(e_batch) = 3
    /\ ExtractionFailed(1)
    /\ ShortWarned(2) /\ Submitted(2)
    /\ ~ShortWarned(3) /\ Submitted(3)
    /\ Len(e_effective) = 2

\* both sides of the exclusion threshold are reached
C23_ThresholdReached ==
    /\ Extracted
    /\ Len(e_batch) = 2
    /\ e_textos[1].stripped = 50 /\ ~Submitted(1) /\ ShortWarned(1)
    /\ e_textos[2].stripped = 51 /\ Submitted(2)

(***************************************************************************)
(* Claims about the paths handed to the extractor (Spec).                  *)
(***************************************************************************)
\* the latest batch has gone through the extraction loop
BatchExtracted ==
    pc \in {"requesting", "reconciling", "merging", "pausing", "advancing"}

\* C28: for every scanned document the path handed to the extractor denotes
\* that same document, whether the folder argument is absolute or relative,
\* so no scanned PDF is skipped because the folder prefix was applied twice.
C28_SameDocument ==
    BatchExtracted =>
        /\ Len(trace.opened) = Len(batch)
        /\ \A k \in 1..Len(batch) :
              Denotes(trace.opened[k], folder.path, batch[k])

\* C28 restricted to what the code does: the path denotes the document when
\* the folder argument is absolute or has no parts; otherwise the prefix is
\* doubled and every document of the batch is skipped.
C28_DoubledWhenRelative ==
    BatchExtracted =>
        /\ Len(trace.opened) = Len(batch)
        /\ \A k \in 1..Len(batch) :
              IF folder.path.absolute \/ folder.path.parts = <<>>
              THEN Denotes(trace.opened[k], folder.path, batch[k])
              ELSE /\ trace.opened[k].parts = folder.path.parts \o folder.path.parts \o <<batch[k]>>
                   /\ texts_and_files = <<>>

\* a relative folder whose batch was skipped whole
C28_DoubledReached ==
    /\ pc = "merging"
    /\ folder.path = RelDocs
    /\ Len(batch) = 2
    /\ texts_and_files = <<>>

(***************************************************************************)
(* Claims about the organizer's counters and destinations (SpecOrganize).  *)
(***************************************************************************)
\* the PDFs of the source folder no record names
Unreferenced == o_source.files \ ClassifiedFiles(o_results)
\* those of them the listing of line 624 holds
UnreferencedGlobbed ==
    { n \in Unreferenced : GlobMatchesPdf(n, o_posix) }

\* C26: total_processed is the number of records; the three outcome counters
\* add up to the records plus the source PDFs no record names; and
\* folders_created is at most successfully_organized.
C26_Accounting ==
    Organized =>
        /\ o_stats.total_processed = Len(o_results)
        /\ o_stats.successfully_organized + o_stats.moved_to_unclassified
             + o_stats.errors = Len(o_results) + Cardinality(Unreferenced)
        /\ o_stats.folders_created <= o_stats.successfully_organized

\* C26 as the code has it: the sum covers the unreferenced PDFs the listing
\* holds, and folders_created is at most the records that reached line 610.
C26_AccountingOfListed ==
    Organized =>
        /\ o_stats.total_processed = Len(o_results)
        /\ o_stats.successfully_organized + o_stats.moved_to_unclassified
             + o_stats.errors = Len(o_results) + Cardinality(UnreferencedGlobbed)
        /\ o_stats.folders_created
             <= o_stats.successfully_organized + o_stats.errors

\* a destination folder was counted although the copy into it failed
C26_FolderWithoutCopyReached ==
    /\ Organized /\ o_run = 1
    /\ o_stats.folders_created = 1
    /\ o_stats.successfully_organized = 0

\* an unreferenced PDF was left out of the counters
C26_UncountedReached ==
    /\ Organized /\ o_run = 1
    /\ Unreferenced # {} /\ UnreferencedGlobbed = {}
    /\ o_stats.moved_to_unclassified + o_stats.errors = 0
    /\ o_results = <<>>

\* The directory a copy lands in, relative to the destination root: the
\* depth reached after following the segments of dir, or -1 once the path
\* has left the root.
RECURSIVE DepthAfter(_, _)
DepthAfter(dir, depth) ==
    IF depth < 0 \/ dir = <<>> THEN depth
    ELSE DepthAfter(Tail(dir), IF Head(dir) = DotDot THEN depth - 1 ELSE depth + 1)

InsideRoot(dir) == DepthAfter(dir, 0) >= 0

\* C27: every file the organizer copies lands inside the destination root.
C27_CopiesInsideRoot ==
    \A n \in 1..Len(o_copies) : InsideRoot(o_copies[n].dir)

\* a copy that landed in the parent of the destination root
C27_EscapeReached ==
    /\ Organized /\ o_run = 1
    /\ \E n \in 1..Len(o_copies) :
          /\ o_copies[n].dir = <<DotDot>>
          /\ [dir |-> <<DotDot>>, name |-> o_copies[n].name] \in o_tree.files
    /\ o_stats.successfully_organized = 1

InitSpecCollect ==
    IdleRun /\ IdleDecode /\ IdleOrganize /\ IdleSanitize /\ IdleSave /\ IdleExtract
    /\ InitCollect /\ IdlePipeline

NextCollect ==
    \/ CollectStart /\ UNCHANGED <<vars_run, vars_dec, vars_org, vars_san, vars_sav, vars_ext, vars_pip>>
    \/ CollectCopy /\ UNCHANGED <<vars_run, vars_dec, vars_org, vars_san, vars_sav, vars_ext, vars_pip>>
    \/ CollectReturn /\ UNCHANGED <<vars_run, vars_dec, vars_org, vars_san, vars_sav, vars_ext, vars_pip>>
    \/ Cleanup /\ UNCHANGED <<vars_run, vars_dec, vars_org, vars_san, vars_sav, vars_ext, vars_pip>>

SpecCollect == InitSpecCollect /\ [][NextCollect]_vars

(***************************************************************************)
(* Claims about the recursive collector and its staging folder             *)
(* (SpecCollect).                                                          *)
(***************************************************************************)
\* collect_pdfs_recursively has just returned
Collected ==
    /\ c_pc = "ready"
    /\ c_calls # <<>>
    /\ c_calls[Len(c_calls)] = "collect"

\* C24: the staged copies have pairwise different names, the translation
\* table has exactly one entry per file that was copied, and the returned
\* count is the number of entries, even when copies fail midway.
C24_DistinctStagedNames ==
    Collected =>
        /\ \A n, m \in 1..Len(c_log) : n # m => c_log[n].staged # c_log[m].staged
        /\ \A n \in 1..Len(c_log) : c_log[n] \in c_ret.map
        /\ Cardinality(c_ret.map) = Len(c_log)
        /\ c_ret.count = Cardinality(c_ret.map)
        /\ \A e \in c_ret.map : e.staged \in c_disk[c_ret.temp_dir].files

\* two files whose names collide once the separator is replaced were both
\* copied, around a copy that failed
C24_Witness ==
    /\ Collected
    /\ c_ret.count = 2
    /\ c_log[1].staged.safe = c_log[2].staged.safe
    /\ c_log[1].relative # c_log[2].relative

\* a copy that failed after writing its destination, then a copy that
\* succeeded under the same staged name
C24_PartialReached ==
    /\ Collected
    /\ c_ret.count = 1
    /\ c_log[1].relative = << <<"a", "_", "b.pdf">> >>
    /\ c_log[1].staged.index = 0
    /\ Cardinality(c_disk[c_ret.temp_dir].files) = 2

AfterCleanup(how) ==
    /\ c_pc = "ready"
    /\ c_calls # <<>>
    /\ c_calls[Len(c_calls)] = how

\* C29: after any sequence of collect and cleanup calls that ends with a
\* successful cleanup, temp_dir is None, pdf_location_map is empty and no
\* staging folder made by the classifier is left.
C29_NothingLeft ==
    (AfterCleanup("cleanup_removed") \/ AfterCleanup("cleanup_nothing")) =>
        /\ c_temp_dir = 0
        /\ c_map = {}
        /\ \A n \in 1..Len(c_disk) : ~c_disk[n].exists

\* C29 as the code has it: the cleanup removes the latest staging folder only.
C29_LatestRemoved ==
    (AfterCleanup("cleanup_removed") \/ AfterCleanup("cleanup_nothing")) =>
        /\ c_temp_dir = 0
        /\ c_map = {}
        /\ c_disk # <<>> => ~c_disk[Len(c_disk)].exists

\* C29: a cleanup with no staging folder changes nothing, and a collect that
\* raises for an invalid root leaves temp_dir and pdf_location_map as they
\* were.
C29_NoOpAndRaise ==
    [][ (c_calls' # c_calls /\ c_calls'[Len(c_calls')] \in {"cleanup_nothing", "collect_raised"})
          => UNCHANGED <<c_temp_dir, c_map, c_disk>> ]_vars

\* two collects in a row, then a cleanup that succeeded: the first staging
\* folder is still there
C29_LeakReached ==
    /\ c_calls = <<"collect", "collect", "cleanup_removed">>
    /\ c_disk[1].exists /\ ~c_disk[2].exists
    /\ c_temp_dir = 0

InitSpecPipeline ==
    InitRun /\ IdleDecode /\ IdleOrganize /\ IdleSanitize /\ IdleSave /\ IdleExtract
    /\ IdleCollect /\ InitPipeline

NextPipeline ==
    \/ Construct /\ UNCHANGED <<vars_dec, vars_org, vars_san, vars_sav, vars_ext, vars_col, vars_pip>>
    \/ Scan /\ UNCHANGED <<vars_dec, vars_org, vars_san, vars_sav, vars_ext, vars_col, vars_pip>>
    \/ Extract /\ UNCHANGED <<vars_dec, vars_org, vars_san, vars_sav, vars_ext, vars_col, vars_pip>>
    \/ Request /\ UNCHANGED <<vars_dec, vars_org, vars_san, vars_sav, vars_ext, vars_col, vars_pip>>
    \/ Reconcile /\ UNCHANGED <<vars_dec, vars_org, vars_san, vars_sav, vars_ext, vars_col, vars_pip>>
    \/ Merge /\ UNCHANGED <<vars_dec, vars_org, vars_san, vars_sav, vars_ext, vars_col, vars_pip>>
    \/ Pause /\ UNCHANGED <<vars_dec, vars_org, vars_san, vars_sav, vars_ext, vars_col, vars_pip>>
    \/ Advance /\ UNCHANGED <<vars_dec, vars_org, vars_san, vars_sav, vars_ext, vars_col, vars_pip>>
    \/ Persist /\ UNCHANGED <<vars_dec, vars_org, vars_san, vars_sav, vars_ext, vars_col, vars_pip>>
    \/ PipelineRaised /\ UNCHANGED <<vars_run, vars_dec, vars_org, vars_san, vars_sav, vars_ext, vars_col>>
    \/ PipelineClassified /\ UNCHANGED <<vars_run, vars_dec, vars_san, vars_sav, vars_ext, vars_col>>
    \/ OrganizeStart /\ UNCHANGED <<vars_run, vars_dec, vars_san, vars_sav, vars_ext, vars_col, vars_pip>>
    \/ OrganizeRecord /\ UNCHANGED <<vars_run, vars_dec, vars_san, vars_sav, vars_ext, vars_col, vars_pip>>
    \/ OrganizeGlob /\ UNCHANGED <<vars_run, vars_dec, vars_san, vars_sav, vars_ext, vars_col, vars_pip>>
    \/ OrganizeUnreferenced /\ UNCHANGED <<vars_run, vars_dec, vars_san, vars_sav, vars_ext, vars_col, vars_pip>>
    \/ OrganizeReturn /\ UNCHANGED <<vars_run, vars_dec, vars_san, vars_sav, vars_ext, vars_col, vars_pip>>
    \/ PipelineCombined /\ UNCHANGED <<vars_run, vars_dec, vars_org, vars_san, vars_sav, vars_ext, vars_col>>

SpecPipeline == InitSpecPipeline /\ [][NextPipeline]_vars


(***************************************************************************)
(* Claims about classify_and_organize (SpecPipeline).                      *)
(***************************************************************************)
BatchesInIndexOrder ==
    \A k \in 1..Len(trace.batches) :
       trace.batches[k] = Slice(pdf_files, (k - 1) * batch_size, batch_size)

\* every batch of the scanned list has been through the loop
AllReconciled ==
    /\ pdf_files # <<>>
    /\ Len(trace.batches) = CeilDiv(Len(pdf_files), batch_size)
    /\ Len(trace.outcomes) = Len(trace.batches)

\* the order of the phases, whatever the number of calls of _save_results
PhaseOrder ==
    /\ BatchesInIndexOrder
    \* a batch begins only when the one before it has ended
    /\ Len(trace.batches) - Len(trace.outcomes) \in {0, 1}
    /\ (pc \in {"extracting", "requesting", "reconciling", "merging"}
          => Len(trace.batches) = Len(trace.outcomes) + 1)
    /\ trace.saves <= 1
    /\ (pc = "persisting" => trace.saves = 0 /\ AllReconciled)
    /\ (trace.saves = 1 => AllReconciled /\ pc \in {"done", "save_raised"})
    \* organizing begins after persistence has finished
    /\ (o_pc # "idle" => pc = "done" /\ trace.saves = 1 /\ output_dir.json_written)
    /\ (p_pc = "organizing" => o_pc # "idle")
    /\ (p_pc = "returned" => pc = "done" /\ o_pc \in {"idle", "done"})

\* C22 as stated: every folder run goes through scanning, the batches in
\* index order, persistence, optionally organizing, and ends; persistence
\* happens exactly once, after the last batch, and organizing never starts
\* before it.
C22_PersistedExactlyOnce ==
    /\ PhaseOrder
    /\ (pc = "done" => trace.saves = 1)

\* C22 as amended: persistence happens exactly once in a run that found a
\* PDF, and not at all in a run that found none.
C22_PersistedOncePerNonEmptyRun ==
    /\ PhaseOrder
    /\ (pc \in {"done", "save_raised"}
          => trace.saves = IF pdf_files = <<>> THEN 0 ELSE 1)
    /\ (pc = "folder_raised" => trace.saves = 0 /\ trace.batches = <<>>)

\* a run of two batches that was persisted, organized and has returned
C22_Witness ==
    /\ p_pc = "returned"
    /\ Len(trace.outcomes) = 2
    /\ trace.saves = 1
    /\ o_pc = "done"
    /\ "organization" \in DOMAIN p_stats

\* a run that found no PDF has returned without persistence
C22_EmptyRunReached ==
    /\ p_pc = "returned"
    /\ pdf_files = <<>>
    /\ trace.saves = 0
    /\ trace.batches = <<>>

\* C25: the ResultSet handed to the organizer is the sequence of records
\* this run accumulated and persisted, whatever earlier artifacts the output
\* directory holds.
C25_OwnRecordsOrganized ==
    o_pc # "idle" =>
        /\ o_results = all_results
        /\ p_latest = output_dir.json_name

\* C25 as the code has it: the same, when no other artifact of the output
\* directory has a later modification time.
C25_OwnRecordsWhenNewest ==
    (o_pc # "idle" /\ \A a \in p_prior : a.mtime < 1) =>
        /\ o_results = all_results
        /\ p_latest = output_dir.json_name

\* the organizer was handed the records of an earlier run
C25_OldRecordsReached ==
    /\ p_pc = "returned"
    /\ o_pc = "done"
    /\ o_results = OldRecords
    /\ Len(all_results) = 2

CallEnded == p_pc \in {"returned", "raised"}

\* C30: the organizer runs exactly when organization is requested and the
\* run produced at least one record; when it is requested and nothing was
\* processed, the organizer is not called, nothing is created or copied and
\* the statistics carry no 'organization' entry.
C30_OrganizedIffRequested ==
    CallEnded =>
        /\ (o_pc = "done") <=> (p_organize /\ all_results # <<>>)
        /\ (p_pc = "returned" /\ p_organize /\ stats.processed = 0) =>
              /\ o_pc = "idle"
              /\ o_tree = [dirs |-> {}, files |-> {}]
              /\ o_copies = <<>>
              /\ ~("organization" \in DOMAIN p_stats)

\* C30 for the calls that return.
C30_OrganizedIffRequestedOnReturn ==
    p_pc = "returned" =>
        /\ (o_pc = "done") <=> (p_organize /\ stats.processed > 0)
        /\ ("organization" \in DOMAIN p_stats) <=> (p_organize /\ stats.processed > 0)
        /\ (p_organize /\ stats.processed = 0) =>
              /\ o_pc = "idle"
              /\ o_tree = [dirs |-> {}, files |-> {}]
              /\ o_copies = <<>>

\* organization was requested, the run produced a record, and the call
\* ended without the organizer
C30_NotOrganizedReached ==
    /\ p_pc = "raised"
    /\ pc = "save_raised"
    /\ p_organize
    /\ all_results # <<>>
    /\ o_pc = "idle"

=============================================================================
